---- MODULE Spec2Model ----
(***************************************************************************)
(* Commit-reveal batch liquidation engine (LiquidationEngine.sol) together *)
(* with the part of VaultManager.sol that settlement calls back into.      *)
(* One transaction is one step. A reverted transaction changes nothing;    *)
(* the error it reverts with is the value of the operator that models the  *)
(* checks of the function.                                                 *)
(***************************************************************************)
EXTENDS Integers, Sequences, FiniteSets, TLC

\* ------------------------------------------------------------------------
\* Bounds of the model
\* ------------------------------------------------------------------------
MaxBatches == 2
MaxTime == 4
MaxCommits == 2
MaxReveals == 2
MaxBalance == 4

\* ------------------------------------------------------------------------
\* Constructor parameters and constants of the contracts (scaled down)
\* ------------------------------------------------------------------------
COMMIT_WINDOW == 1
REVEAL_WINDOW == 1
minCommitBond == 1
minLot == 3
maxBatchSize == 2
WAD == 1000
\* type(uint256).max, with the word scaled down to 16 bits
UINT_MAX == 65535
\* MAX_BPS = 10000, scaled down to tenths
MAX_BPS == 10
\* MCR_BPS = 12000, on the same scale
MCR_BPS == 12

Bidders == {"b1", "b2"}
Vaults == {1}
\* The vaults of the queue specification: more than one batch can take
QueueVaults == {1, 2, 3}
BatchIds == 1..MaxBatches

\* (vaultId, qty, price, salt, bidder) tuples whose hash is submitted as a
\* commitment: b1's bid of 2 units at price 1 and b2's bid of 2 units at
\* price 2. Any bidder may submit either, so a bidder can also submit a
\* commitment that binds the other address.
CommitTuples == { <<1, 2, 1, 1, "b1">>, <<1, 2, 2, 1, "b2">> }
\* (vaultId, qty, price, salt) tuples a bidder may reveal: the committed ones,
\* which differ from each other in the price only
RevealParams == { <<1, 2, 1, 1>>, <<1, 2, 2, 1>> }
\* The wider inputs of the reveal-phase specification: the bid of 2 units at
\* price 1 bound to either address next to the tuples above, and reveals that
\* differ from <<1, 2, 1, 1>> in exactly one of the vault, the quantity, the
\* price or the salt
WideCommitTuples == CommitTuples \cup { <<1, 2, 1, 1, "b2">> }
WideRevealParams == RevealParams \cup
                    { <<2, 2, 1, 1>>, <<1, 1, 1, 1>>, <<1, 2, 1, 2>> }
\* The inputs of the auction specification: a bidder commits to a quantity
\* below, equal to or above the quantity offered (minLot) at one of three
\* prices, and later reveals what it committed or a tuple nobody committed
\* (salt 2) that carries the largest quantity at the highest price
AuctionQtys == {1, 3, 6}
AuctionPrices == {1, 2, 3}
UncommittedReveal == <<1, 6, 3, 2>>
\* msg.value attached to commitBid
BondValues == {0, 2}
\* The inputs of the health computation: the LTV settings setCollateral
\* accepts (0 and MAX_BPS included), prices from 0 up to one that overflows
\* with the largest holding, the shares and the debt of the vault
LtvValues == {0, 5, 8, 10}
PriceValues == {0, 1, 3, 100, 400, 1000}
ShareValues == {0, 4, 200}
DebtValues == {0, 10, 30000}
\* msg.value attached to commitBid where a bidder commits more than once
RecommitValues == {1, 2, 3}

VARIABLES
    now,            \* block.timestamp
    activeBatchId,  \* LiquidationEngine.activeBatchId
    vaultQueue,     \* LiquidationEngine.vaultQueue
    vaultQueued,    \* LiquidationEngine.vaultQueued
    batches,        \* LiquidationEngine.batches
    commitments,    \* LiquidationEngine.commitments
    bonds,          \* LiquidationEngine.bonds
    vaults,         \* VaultManager.vaults
    paused,         \* VaultManager (Pausable) paused flag
    refunded,       \* ether sent back by the engine, per batch and bidder
    preimage,       \* the tuple each stored commitment was computed from
    entered,        \* LiquidationEngine (ReentrancyGuard) status is ENTERED
    callFrame,      \* the batch whose settle is inside its call to the VaultManager
    balance,        \* address(this).balance of the LiquidationEngine
    collaterals,    \* VaultManager.collaterals, for the one collateral type
    oracle,         \* GuardedOracle: latest price of the asset and the settings
    shareVault,     \* the ERC4626 vault behind the adapter
    stable          \* stablecoin held by the vault owner (minted less burned)

vars == <<now, activeBatchId, vaultQueue, vaultQueued, batches, commitments,
          bonds, vaults, paused, refunded, preimage, entered, callFrame,
          balance, collaterals, oracle, shareVault, stable>>

\* The state outside the engine that the health computation reads
vmEnv == <<collaterals, oracle, shareVault, stable>>

engineVars == <<activeBatchId, vaultQueue, vaultQueued, batches, commitments,
                bonds, refunded, preimage, entered, callFrame, balance>>

\* ------------------------------------------------------------------------
\* Data
\* ------------------------------------------------------------------------
\* A Batch whose storage slot was never written
EmptyBatch == [startCommitTs |-> 0, startRevealTs |-> 0, vaultIds |-> <<>>,
               totalQtyOffered |-> 0, clearingPrice |-> 0,
               revealedBids |-> <<>>, settled |-> FALSE]

\* batches[id] of the contract: a mapping, so every key reads as zeroes
BatchAt(id) == IF id \in DOMAIN batches THEN batches[id] ELSE EmptyBatch

\* How many (batch, bidder) slots hold a commitment, and how many bids were
\* revealed, over all batches (the quantities the bounds cap)
NumCommitted ==
    Cardinality({ ba \in BatchIds \X Bidders : commitments[ba[1]][ba[2]] # 0 })

RECURSIVE SumReveals(_)
SumReveals(b) == IF b = 0 THEN 0 ELSE Len(batches[b].revealedBids) + SumReveals(b - 1)

NumRevealed == SumReveals(MaxBatches)

AddrIx(a) == IF a = "b1" THEN 0 ELSE 1

\* keccak256(abi.encode(vaultId, qty, price, salt, msg.sender)): abi.encode pads
\* every component to its own 32-byte word, so distinct tuples give distinct
\* preimages; the digest is taken as collision free and never zero.
HashBad(vaultId, qty, price, salt, sender) ==
    1 + (salt + 4 * (price + 4 * (qty + 4 * vaultId)))

Hash(vaultId, qty, price, salt, sender) ==
    1 + AddrIx(sender) + 2 * (salt + 4 * (price + 4 * (qty + 4 * vaultId)))

\* TWAP_SIZE = 16 points in the oracle's ring buffer, scaled down
TWAP_SIZE == 2

\* GuardedOracle after construction with the staleness limit maxStale: no
\* price, no bounds, not paused, TWAP off, an empty ring
NewOracle(maxStale) ==
    [price |-> 0, updatedAt |-> 0, paused |-> FALSE, maxStale |-> maxStale,
     minPrice |-> 0, maxPrice |-> 0, twapWindow |-> 0,
     ring |-> [k \in 0..(TWAP_SIZE - 1) |-> [p |-> 0, t |-> 0]],
     idx |-> 0, count |-> 0]

\* _push(asset, price, ts): the latest price and the next slot of the ring
Push(o, price, ts) ==
    [o EXCEPT !.price = price,
              !.updatedAt = ts,
              !.ring[o.idx] = [p |-> price, t |-> ts],
              !.idx = (o.idx + 1) % TWAP_SIZE,
              !.count = IF o.count < TWAP_SIZE THEN o.count + 1 ELSE o.count]

\* The collateral type as configured at deployment (LTV 80%), a fresh price
\* of 1 without staleness or bounds checks, and an ERC4626 vault whose shares
\* are worth one asset each
InitEnv ==
    /\ collaterals = [ltvBps |-> 8, enabled |-> TRUE]
    /\ oracle = Push(NewOracle(0), 1, 1)
    /\ shareVault = [totalAssets |-> 4, totalSupply |-> 4]
    /\ stable = 0

Init ==
    /\ now = 1
    /\ activeBatchId = 0
    /\ vaultQueue = <<>>
    /\ vaultQueued = [v \in Vaults |-> FALSE]
    /\ batches = [b \in BatchIds |-> EmptyBatch]
    /\ commitments = [b \in BatchIds |-> [a \in Bidders |-> 0]]
    /\ bonds = [b \in BatchIds |-> [a \in Bidders |-> 0]]
    /\ vaults = [v \in Vaults |-> [shares |-> 4, debt |-> 10, active |-> TRUE]]
    /\ paused = FALSE
    /\ refunded = [b \in BatchIds |-> [a \in Bidders |-> 0]]
    /\ preimage = [b \in BatchIds |-> [a \in Bidders |-> <<>>]]
    /\ entered = FALSE
    /\ callFrame = 0
    /\ balance = 0
    /\ InitEnv

\* A reverted call: every state change is rolled back, so the call is no step
\* of the machine (the stuttering step it amounts to is always allowed)
Revert(op, caller, batchId, err) ==
    FALSE

\* ------------------------------------------------------------------------
\* Time
\* ------------------------------------------------------------------------
Tick ==
    /\ now < MaxTime
    /\ now' = now + 1
    /\ UNCHANGED <<engineVars, vaults, paused, vmEnv>>

\* ------------------------------------------------------------------------
\* VaultManager: the settlement callback
\* ------------------------------------------------------------------------
\* _processVaultLiquidation(vaultId, qty) applied to the vault table vs
ProcessVaultLiquidation(vs, vaultId, qty) ==
    LET vault == vs[vaultId]
        debtToBurn == IF vault.debt > 0 /\ vault.shares > 0
                      THEN (vault.debt * qty) \div vault.shares
                      ELSE 0
    IN  IF vault.shares < qty
        THEN [err |-> "NotEnoughShares", vaults |-> vs]
        ELSE [err |-> "ok",
              vaults |-> [vs EXCEPT ![vaultId] =
                            [@ EXCEPT !.debt = @ - debtToBurn, !.shares = @ - qty]]]

\* The loop of onLiquidationSettle from index i on
RECURSIVE SettleLoop(_, _, _, _)
SettleLoop(vs, vaultIds, filledQty, i) ==
    IF i > Len(vaultIds) THEN [err |-> "ok", vaults |-> vs]
    ELSE IF filledQty[i] > 0
         THEN LET r == ProcessVaultLiquidation(vs, vaultIds[i], filledQty[i])
              IN  IF r.err # "ok" THEN [err |-> r.err, vaults |-> vs]
                  ELSE SettleLoop(r.vaults, vaultIds, filledQty, i + 1)
         ELSE SettleLoop(vs, vaultIds, filledQty, i + 1)

\* onLiquidationSettle(vaultIds, filledQty, clearingPrice), called by the engine
onLiquidationSettle(vaultIds, filledQty) ==
    IF paused THEN [err |-> "EnforcedPause", vaults |-> vaults]
    ELSE IF Len(vaultIds) # Len(filledQty)
         THEN [err |-> "ArrayLengthMismatch", vaults |-> vaults]
         ELSE SettleLoop(vaults, vaultIds, filledQty, 1)

\* ------------------------------------------------------------------------
\* LiquidationEngine: queue and batch formation
\* ------------------------------------------------------------------------
\* enqueue(vaultId), called by a holder of LIQUIDATOR_ROLE (the liquidator
\* account, or VaultManager.flagForLiquidation)
EnqueueErrorNone(vaultId) == "ok"

EnqueueError(vaultId) ==
    IF vaultQueued[vaultId] THEN "VaultAlreadyQueued" ELSE "ok"

enqueue(vaultId) ==
    IF EnqueueError(vaultId) # "ok"
    THEN Revert("enqueue", "liquidator", 0, EnqueueError(vaultId))
    ELSE /\ vaultQueue' = Append(vaultQueue, vaultId)
         /\ vaultQueued' = [vaultQueued EXCEPT ![vaultId] = TRUE]
         /\ UNCHANGED <<now, activeBatchId, batches, commitments, bonds,
                        refunded, preimage, vaults, paused, vmEnv, entered, callFrame,
                        balance>>

\* The checks of startBatch, in the order of the code
StartBatchErrorNoWindow ==
    IF Len(vaultQueue) = 0 THEN "EmptyQueue" ELSE "ok"

StartBatchErrorLate ==
    LET currentBatch == BatchAt(activeBatchId)
    IN  IF Len(vaultQueue) = 0 THEN "EmptyQueue"
        ELSE IF /\ currentBatch.startCommitTs > 0
                /\ ~currentBatch.settled
                /\ now < currentBatch.startRevealTs
             THEN "BatchNotActive"
             ELSE "ok"

StartBatchError ==
    LET currentBatch == BatchAt(activeBatchId)
    IN  IF Len(vaultQueue) = 0 THEN "EmptyQueue"
        ELSE IF /\ currentBatch.startCommitTs > 0
                /\ ~currentBatch.settled
                /\ now < currentBatch.startRevealTs + REVEAL_WINDOW
             THEN "BatchNotActive"
             ELSE "ok"

startBatchReuseId ==
    LET err == StartBatchError
        batchSize == IF Len(vaultQueue) > maxBatchSize THEN maxBatchSize
                     ELSE Len(vaultQueue)
        newId == IF BatchAt(activeBatchId).settled THEN activeBatchId
                 ELSE activeBatchId + 1
    IN  IF err # "ok" THEN Revert("startBatch", "any", activeBatchId, err)
        ELSE /\ newId <= MaxBatches
             /\ activeBatchId' = newId
             /\ batches' = [batches EXCEPT ![newId] =
                   [@ EXCEPT !.startCommitTs = now,
                             !.startRevealTs = now + COMMIT_WINDOW,
                             !.vaultIds = @ \o SubSeq(vaultQueue, 1, batchSize),
                             !.totalQtyOffered = @ + batchSize * minLot]]
             /\ vaultQueued' = [v \in DOMAIN vaultQueued |->
                   IF \E i \in 1..batchSize : vaultQueue[i] = v
                   THEN FALSE ELSE vaultQueued[v]]
             /\ vaultQueue' = SubSeq(vaultQueue, batchSize + 1, Len(vaultQueue))
             /\ UNCHANGED <<now, commitments, bonds, refunded, preimage, vaults,
                            paused, vmEnv, entered, callFrame, balance>>

startBatchTakeAll ==
    LET err == StartBatchError
        batchSize == Len(vaultQueue)
        newId == activeBatchId + 1
    IN  IF err # "ok" THEN Revert("startBatch", "any", activeBatchId, err)
        ELSE /\ activeBatchId < MaxBatches
             /\ activeBatchId' = newId
             /\ batches' = [batches EXCEPT ![newId] =
                   [@ EXCEPT !.startCommitTs = now,
                             !.startRevealTs = now + COMMIT_WINDOW,
                             !.vaultIds = @ \o SubSeq(vaultQueue, 1, batchSize),
                             !.totalQtyOffered = @ + batchSize * minLot]]
             /\ vaultQueued' = [v \in DOMAIN vaultQueued |-> FALSE]
             /\ vaultQueue' = <<>>
             /\ UNCHANGED <<now, commitments, bonds, refunded, preimage, vaults,
                            paused, vmEnv, entered, callFrame, balance>>

startBatch ==
    LET err == StartBatchError
        batchSize == IF Len(vaultQueue) > maxBatchSize THEN maxBatchSize
                     ELSE Len(vaultQueue)
        newId == activeBatchId + 1
    IN  IF err # "ok" THEN Revert("startBatch", "any", activeBatchId, err)
        ELSE /\ activeBatchId < MaxBatches
             /\ activeBatchId' = newId
             /\ batches' = [batches EXCEPT ![newId] =
                   [@ EXCEPT !.startCommitTs = now,
                             !.startRevealTs = now + COMMIT_WINDOW,
                             !.vaultIds = @ \o SubSeq(vaultQueue, 1, batchSize),
                             !.totalQtyOffered = @ + batchSize * minLot]]
             /\ vaultQueued' = [v \in DOMAIN vaultQueued |->
                   IF \E i \in 1..batchSize : vaultQueue[i] = v
                   THEN FALSE ELSE vaultQueued[v]]
             /\ vaultQueue' = SubSeq(vaultQueue, batchSize + 1, Len(vaultQueue))
             /\ UNCHANGED <<now, commitments, bonds, refunded, preimage, vaults,
                            paused, vmEnv, entered, callFrame, balance>>

\* ------------------------------------------------------------------------
\* Commit phase
\* ------------------------------------------------------------------------
\* The checks of commitBid, in the order of the code (the nonReentrant
\* modifier runs first)
CommitBidErrorNoBond(batchId, value) ==
    IF entered THEN "ReentrancyGuardReentrantCall"
    ELSE IF batchId = 0 \/ batchId > activeBatchId THEN "InvalidBatchId"
    ELSE IF BatchAt(batchId).startCommitTs = 0 THEN "InvalidBatchId"
    ELSE IF now >= BatchAt(batchId).startRevealTs THEN "CommitWindowClosed"
    ELSE IF BatchAt(batchId).settled THEN "BatchAlreadySettled"
    ELSE "ok"

CommitBidErrorInclusive(batchId, value) ==
    IF entered THEN "ReentrancyGuardReentrantCall"
    ELSE IF batchId = 0 \/ batchId > activeBatchId THEN "InvalidBatchId"
    ELSE IF value < minCommitBond THEN "InsufficientBond"
    ELSE IF BatchAt(batchId).startCommitTs = 0 THEN "InvalidBatchId"
    ELSE IF now > BatchAt(batchId).startRevealTs THEN "CommitWindowClosed"
    ELSE IF BatchAt(batchId).settled THEN "BatchAlreadySettled"
    ELSE "ok"

CommitBidError(batchId, value) ==
    IF entered THEN "ReentrancyGuardReentrantCall"
    ELSE IF batchId = 0 \/ batchId > activeBatchId THEN "InvalidBatchId"
    ELSE IF value < minCommitBond THEN "InsufficientBond"
    ELSE IF BatchAt(batchId).startCommitTs = 0 THEN "InvalidBatchId"
    ELSE IF now >= BatchAt(batchId).startRevealTs THEN "CommitWindowClosed"
    ELSE IF BatchAt(batchId).settled THEN "BatchAlreadySettled"
    ELSE "ok"

\* pre: the tuple the caller hashed off chain to obtain the commitment
commitBidAnySlot(caller, batchId, pre, value) ==
    LET err == CommitBidError(batchId, value)
        commitment == Hash(pre[1], pre[2], pre[3], pre[4], pre[5])
    IN  IF err # "ok" THEN Revert("commitBid", caller, batchId, err)
        ELSE /\ commitments[batchId][caller] # 0 \/ NumCommitted < MaxCommits
             /\ balance + value <= MaxBalance
             /\ balance' = balance + value
             /\ commitments' = [commitments EXCEPT ![batchId][caller] = commitment]
             /\ bonds' = [bonds EXCEPT ![batchId] = [a \in Bidders |-> value]]
             /\ preimage' = [preimage EXCEPT ![batchId][caller] = pre]
             /\ UNCHANGED <<now, activeBatchId, vaultQueue, vaultQueued, batches,
                            refunded, vaults, paused, vmEnv, entered, callFrame>>

commitBidFirstWins(caller, batchId, pre, value) ==
    LET err == CommitBidError(batchId, value)
        commitment == Hash(pre[1], pre[2], pre[3], pre[4], pre[5])
        first == commitments[batchId][caller] = 0
    IN  IF err # "ok" THEN Revert("commitBid", caller, batchId, err)
        ELSE /\ commitments[batchId][caller] # 0 \/ NumCommitted < MaxCommits
             /\ balance + value <= MaxBalance
             /\ balance' = balance + value
             /\ commitments' = IF first
                               THEN [commitments EXCEPT ![batchId][caller] = commitment]
                               ELSE commitments
             /\ bonds' = IF first THEN [bonds EXCEPT ![batchId][caller] = value]
                         ELSE bonds
             /\ preimage' = IF first THEN [preimage EXCEPT ![batchId][caller] = pre]
                            ELSE preimage
             /\ UNCHANGED <<now, activeBatchId, vaultQueue, vaultQueued, batches,
                            refunded, vaults, paused, vmEnv, entered, callFrame>>

commitBid(caller, batchId, pre, value) ==
    LET err == CommitBidError(batchId, value)
        commitment == Hash(pre[1], pre[2], pre[3], pre[4], pre[5])
    IN  IF err # "ok" THEN Revert("commitBid", caller, batchId, err)
        ELSE /\ commitments[batchId][caller] # 0 \/ NumCommitted < MaxCommits
             /\ balance + value <= MaxBalance
             /\ balance' = balance + value
             /\ commitments' = [commitments EXCEPT ![batchId][caller] = commitment]
             /\ bonds' = [bonds EXCEPT ![batchId][caller] = value]
             /\ preimage' = [preimage EXCEPT ![batchId][caller] = pre]
             /\ UNCHANGED <<now, activeBatchId, vaultQueue, vaultQueued, batches,
                            refunded, vaults, paused, vmEnv, entered, callFrame>>

\* ------------------------------------------------------------------------
\* Reveal phase
\* ------------------------------------------------------------------------
\* The checks of revealBid, in the order of the code (nonReentrant first)
RevealBidError(caller, batchId) ==
    IF entered THEN "ReentrancyGuardReentrantCall"
    ELSE IF batchId = 0 \/ batchId > activeBatchId THEN "InvalidBatchId"
    ELSE IF now < BatchAt(batchId).startRevealTs THEN "NotInRevealPhase"
    ELSE IF now >= BatchAt(batchId).startRevealTs + REVEAL_WINDOW THEN "RevealWindowClosed"
    ELSE IF BatchAt(batchId).settled THEN "BatchAlreadySettled"
    ELSE IF commitments[batchId][caller] = 0 THEN "NoCommitmentFound"
    ELSE "ok"

\* The Bid struct built by revealBid
MakeBid(caller, vaultId, qty, price, salt, isValid) ==
    [bidder |-> caller, vaultId |-> vaultId, qty |-> qty, price |-> price,
     saltHash |-> salt, revealed |-> TRUE, valid |-> isValid]

\* The amount revealBid sends back on a valid reveal
RefundAmountMin(caller, batchId) == minCommitBond

RefundAmount(caller, batchId) == bonds[batchId][caller]

\* The bids of a batch with the bid of the same bidder, if any, replaced by
\* bid, else with bid appended
ReplaceOwnBid(bids, bid) ==
    IF \E i \in 1..Len(bids) : bids[i].bidder = bid.bidder
    THEN [i \in 1..Len(bids) |-> IF bids[i].bidder = bid.bidder THEN bid ELSE bids[i]]
    ELSE Append(bids, bid)

revealBidReplacesOwn(caller, batchId, vaultId, qty, price, salt, transferOk) ==
    LET err == RevealBidError(caller, batchId)
        storedCommitment == commitments[batchId][caller]
        isValid == (Hash(vaultId, qty, price, salt, caller) = storedCommitment)
        bondAmount == RefundAmount(caller, batchId)
    IN  IF err # "ok" THEN Revert("revealBid", caller, batchId, err)
        ELSE IF isValid /\ ~transferOk
             THEN Revert("revealBid", caller, batchId, "Bond refund failed")
        ELSE /\ NumRevealed < MaxReveals
             /\ batches' = [batches EXCEPT ![batchId].revealedBids =
                   ReplaceOwnBid(@, MakeBid(caller, vaultId, qty, price, salt, isValid))]
             /\ IF isValid
                THEN /\ bonds' = [bonds EXCEPT ![batchId][caller] = 0]
                     /\ refunded' = [refunded EXCEPT ![batchId][caller] = @ + bondAmount]
                     /\ balance' = balance - bondAmount
                ELSE /\ UNCHANGED <<bonds, refunded, preimage, balance>>
             /\ UNCHANGED <<now, activeBatchId, vaultQueue, vaultQueued,
                            commitments, preimage, vaults, paused, vmEnv, entered, callFrame>>

\* transferOk: whether msg.sender accepts the ether sent by the refund call
revealBid(caller, batchId, vaultId, qty, price, salt, transferOk) ==
    LET err == RevealBidError(caller, batchId)
        storedCommitment == commitments[batchId][caller]
        isValid == (Hash(vaultId, qty, price, salt, caller) = storedCommitment)
        bondAmount == RefundAmount(caller, batchId)
    IN  IF err # "ok" THEN Revert("revealBid", caller, batchId, err)
        ELSE IF isValid /\ ~transferOk
             THEN Revert("revealBid", caller, batchId, "Bond refund failed")
        ELSE /\ NumRevealed < MaxReveals
             /\ batches' = [batches EXCEPT ![batchId].revealedBids =
                   Append(@, MakeBid(caller, vaultId, qty, price, salt, isValid))]
             /\ IF isValid
                THEN /\ bonds' = [bonds EXCEPT ![batchId][caller] = 0]
                     /\ refunded' = [refunded EXCEPT ![batchId][caller] = @ + bondAmount]
                     /\ balance' = balance - bondAmount
                ELSE /\ UNCHANGED <<bonds, refunded, preimage, balance>>
             /\ UNCHANGED <<now, activeBatchId, vaultQueue, vaultQueued,
                            commitments, preimage, vaults, paused, vmEnv, entered, callFrame>>

\* ------------------------------------------------------------------------
\* Settlement
\* ------------------------------------------------------------------------
\* The checks of settle, in the order of the code (nonReentrant first)
SettleErrorNoDeadline(batchId) ==
    IF entered THEN "ReentrancyGuardReentrantCall"
    ELSE IF batchId = 0 \/ batchId > activeBatchId THEN "InvalidBatchId"
    ELSE IF BatchAt(batchId).settled THEN "BatchAlreadySettled"
    ELSE "ok"

SettleErrorNoFlag(batchId) ==
    IF entered THEN "ReentrancyGuardReentrantCall"
    ELSE IF batchId = 0 \/ batchId > activeBatchId THEN "InvalidBatchId"
    ELSE IF now < BatchAt(batchId).startRevealTs + REVEAL_WINDOW THEN "CannotSettleYet"
    ELSE "ok"

SettleError(batchId) ==
    IF entered THEN "ReentrancyGuardReentrantCall"
    ELSE IF batchId = 0 \/ batchId > activeBatchId THEN "InvalidBatchId"
    ELSE IF now < BatchAt(batchId).startRevealTs + REVEAL_WINDOW THEN "CannotSettleYet"
    ELSE IF BatchAt(batchId).settled THEN "BatchAlreadySettled"
    ELSE "ok"

\* _slashBonds(batchId): collects the valid revealers in a memory array and
\* emits a placeholder event; it writes nothing to storage. The result is the
\* bonds mapping after the call.
SlashBonds(batchId) == bonds

SelectRevealed(bids) == SelectSeq(bids, LAMBDA b : b.revealed)

SelectValid(bids) == SelectSeq(bids, LAMBDA b : b.valid)

\* One pass of the inner loop of the bubble sort, j = from..upTo (1-based)
RECURSIVE BubblePassAscending(_, _, _)
BubblePassAscending(s, j, upTo) ==
    IF j > upTo THEN s
    ELSE BubblePassAscending(IF s[j].price > s[j + 1].price
                             THEN [s EXCEPT ![j] = s[j + 1], ![j + 1] = s[j]]
                             ELSE s,
                             j + 1, upTo)

RECURSIVE BubblePass(_, _, _)
BubblePass(s, j, upTo) ==
    IF j > upTo THEN s
    ELSE BubblePass(IF s[j].price < s[j + 1].price
                    THEN [s EXCEPT ![j] = s[j + 1], ![j + 1] = s[j]]
                    ELSE s,
                    j + 1, upTo)

\* The outer loop: pass i (0-based) runs j over 0..validCount-i-2
BubbleSortSkipped(s, i) == s

RECURSIVE BubbleSort(_, _)
BubbleSort(s, i) ==
    IF i >= Len(s) - 1 THEN s
    ELSE BubbleSort(BubblePass(s, 1, Len(s) - i - 1), i + 1)

\* The walk over the sorted valid bids from index i with the quantity so far
RECURSIVE ClearingWalkExactFill(_, _, _, _)
ClearingWalkExactFill(sorted, i, cumulativeQty, totalAvailable) ==
    IF i > Len(sorted) THEN sorted[Len(sorted)].price
    ELSE IF cumulativeQty + sorted[i].qty = totalAvailable THEN sorted[i].price
    ELSE ClearingWalkExactFill(sorted, i + 1, cumulativeQty + sorted[i].qty,
                               totalAvailable)

RECURSIVE ClearingWalk(_, _, _, _)
ClearingWalk(sorted, i, cumulativeQty, totalAvailable) ==
    IF i > Len(sorted) THEN sorted[Len(sorted)].price
    ELSE IF cumulativeQty + sorted[i].qty >= totalAvailable THEN sorted[i].price
    ELSE ClearingWalk(sorted, i + 1, cumulativeQty + sorted[i].qty, totalAvailable)

\* _calculateClearingPrice over a batch record
CalculateClearingPrice(batch) ==
    LET validBids == SelectValid(batch.revealedBids)
    IN  IF Len(batch.revealedBids) = 0 THEN 0
        ELSE IF Len(validBids) = 0 THEN 0
        ELSE ClearingWalk(BubbleSort(validBids, 0), 1, 0, batch.totalQtyOffered)

RECURSIVE SumQty(_)
SumQty(s) == IF Len(s) = 0 THEN 0 ELSE Head(s).qty + SumQty(Tail(s))

\* totalDemandAtPrice of _executeSettlement
TotalDemandAtPrice(batch, clearingPrice) ==
    SumQty(SelectSeq(batch.revealedBids,
                     LAMBDA b : b.valid /\ b.price >= clearingPrice))

\* Whether a settle that computed clearingPrice calls onLiquidationSettle
CallbackDue(batch, clearingPrice) ==
    clearingPrice > 0 /\ TotalDemandAtPrice(batch, clearingPrice) > 0

\* fillRatio of _executeSettlement (totalDemandAtPrice > 0)
FillRatioUncapped(batch, clearingPrice) ==
    (batch.totalQtyOffered * WAD) \div TotalDemandAtPrice(batch, clearingPrice)

FillRatio(batch, clearingPrice) ==
    LET r == (batch.totalQtyOffered * WAD) \div TotalDemandAtPrice(batch, clearingPrice)
    IN  IF r > WAD THEN WAD ELSE r

\* allocation of one bid in _executeSettlement: a local value, never stored
AllocationEqualSplit(batch, clearingPrice, bid) ==
    IF bid.valid /\ bid.price >= clearingPrice
    THEN batch.totalQtyOffered \div
             Len(SelectSeq(batch.revealedBids,
                           LAMBDA b : b.valid /\ b.price >= clearingPrice))
    ELSE 0

Allocation(batch, clearingPrice, bid) ==
    IF bid.valid /\ bid.price >= clearingPrice
    THEN (bid.qty * FillRatio(batch, clearingPrice)) \div WAD
    ELSE 0

\* The filledQty array handed to onLiquidationSettle: allocated with one slot
\* per vault of the batch and never written
FilledQty(batch, clearingPrice) ==
    [i \in 1..Len(batch.vaultIds) |-> 0]

\* The checked arithmetic of settle. The walk of _calculateClearingPrice adds
\* the quantities of the sorted valid bids until the offer is reached:
\* whether one of these additions exceeds the word
RECURSIVE WalkOverflows(_, _, _, _)
WalkOverflows(sorted, i, cumulativeQty, totalAvailable) ==
    IF i > Len(sorted) THEN FALSE
    ELSE IF cumulativeQty + sorted[i].qty > UINT_MAX THEN TRUE
    ELSE IF cumulativeQty + sorted[i].qty >= totalAvailable THEN FALSE
    ELSE WalkOverflows(sorted, i + 1, cumulativeQty + sorted[i].qty, totalAvailable)

\* "Panic" when an addition or a product of _calculateClearingPrice or of
\* _executeSettlement exceeds the word: the walk, the sum totalDemandAtPrice,
\* totalQtyOffered * 1e18, or bid.qty * fillRatio of a winning bid
SettleArithmeticError(batch) ==
    LET validBids == SelectValid(batch.revealedBids)
        clearingPrice == CalculateClearingPrice(batch)
        demand == TotalDemandAtPrice(batch, clearingPrice)
    IN  IF Len(validBids) > 0
           /\ WalkOverflows(BubbleSort(validBids, 0), 1, 0, batch.totalQtyOffered)
        THEN "Panic"
        ELSE IF clearingPrice = 0 THEN "ok"
        ELSE IF demand > UINT_MAX THEN "Panic"
        ELSE IF demand = 0 THEN "ok"
        ELSE IF batch.totalQtyOffered * WAD > UINT_MAX THEN "Panic"
        ELSE IF \E i \in 1..Len(batch.revealedBids) :
                    /\ batch.revealedBids[i].valid
                    /\ batch.revealedBids[i].price >= clearingPrice
                    /\ batch.revealedBids[i].qty * FillRatio(batch, clearingPrice) > UINT_MAX
             THEN "Panic"
        ELSE "ok"

\* _executeSettlement: the outcome of its call into the VaultManager. The call
\* is a plain external call, so an error of the callee is the error of settle.
ExecuteSettlementTryCatch(batch, clearingPrice) ==
    [err |-> "ok", vaults |-> vaults]

ExecuteSettlement(batch, clearingPrice) ==
    IF TotalDemandAtPrice(batch, clearingPrice) > 0
    THEN onLiquidationSettle(batch.vaultIds, FilledQty(batch, clearingPrice))
    ELSE [err |-> "ok", vaults |-> vaults]

settleConsumesOffer(batchId) ==
    LET err == SettleError(batchId)
        batch == BatchAt(batchId)
        clearingPrice == CalculateClearingPrice(batch)
        r == IF clearingPrice > 0 THEN ExecuteSettlement(batch, clearingPrice)
             ELSE [err |-> "ok", vaults |-> vaults]
    IN  IF err # "ok" THEN Revert("settle", "any", batchId, err)
        ELSE IF SettleArithmeticError(batch) # "ok"
             THEN Revert("settle", "any", batchId, SettleArithmeticError(batch))
        ELSE IF r.err # "ok" THEN Revert("settle", "any", batchId, r.err)
        ELSE /\ batches' = [batches EXCEPT ![batchId].settled = TRUE,
                                           ![batchId].clearingPrice = clearingPrice,
                                           ![batchId].totalQtyOffered = 0]
             /\ bonds' = SlashBonds(batchId)
             /\ vaults' = r.vaults
             /\ UNCHANGED <<now, activeBatchId, vaultQueue, vaultQueued,
                            commitments, refunded, preimage, paused, vmEnv, entered, callFrame,
                            balance>>

settle(batchId) ==
    LET err == SettleError(batchId)
        batch == BatchAt(batchId)
        clearingPrice == CalculateClearingPrice(batch)
        r == IF clearingPrice > 0 THEN ExecuteSettlement(batch, clearingPrice)
             ELSE [err |-> "ok", vaults |-> vaults]
    IN  IF err # "ok" THEN Revert("settle", "any", batchId, err)
        ELSE IF SettleArithmeticError(batch) # "ok"
             THEN Revert("settle", "any", batchId, SettleArithmeticError(batch))
        ELSE IF r.err # "ok" THEN Revert("settle", "any", batchId, r.err)
        ELSE /\ batches' = [batches EXCEPT ![batchId].settled = TRUE,
                                           ![batchId].clearingPrice = clearingPrice]
             /\ bonds' = SlashBonds(batchId)
             /\ vaults' = r.vaults
             /\ UNCHANGED <<now, activeBatchId, vaultQueue, vaultQueued,
                            commitments, refunded, preimage, paused, vmEnv, entered, callFrame,
                            balance>>

\* settle up to its external call: the checks, settled = true, _slashBonds,
\* the clearing price, and the entry into onLiquidationSettle. The callback
\* reads only the batch's vault list, the vaults and the pause flag, none of
\* which an engine function can change, so a callback that is going to fail
\* (and with it the whole settle) is known, and reverted, here.
settleEnterFlagLast(batchId) ==
    LET err == SettleError(batchId)
        batch == BatchAt(batchId)
        clearingPrice == CalculateClearingPrice(batch)
        r == ExecuteSettlement(batch, clearingPrice)
    IN  IF err # "ok" THEN Revert("settle", "any", batchId, err)
        ELSE IF SettleArithmeticError(batch) # "ok"
             THEN Revert("settle", "any", batchId, SettleArithmeticError(batch))
        ELSE IF r.err # "ok" THEN Revert("settle", "any", batchId, r.err)
        ELSE /\ CallbackDue(batch, clearingPrice)
             /\ entered' = TRUE
             /\ callFrame' = batchId
             /\ batches' = [batches EXCEPT ![batchId].clearingPrice = clearingPrice]
             /\ bonds' = SlashBonds(batchId)
             /\ UNCHANGED <<now, activeBatchId, vaultQueue, vaultQueued,
                            commitments, refunded, preimage, vaults, paused, vmEnv,
                            balance>>

settleEnter(batchId) ==
    LET err == SettleError(batchId)
        batch == BatchAt(batchId)
        clearingPrice == CalculateClearingPrice(batch)
        r == ExecuteSettlement(batch, clearingPrice)
    IN  IF err # "ok" THEN Revert("settle", "any", batchId, err)
        ELSE IF SettleArithmeticError(batch) # "ok"
             THEN Revert("settle", "any", batchId, SettleArithmeticError(batch))
        ELSE IF r.err # "ok" THEN Revert("settle", "any", batchId, r.err)
        ELSE /\ CallbackDue(batch, clearingPrice)
             /\ entered' = TRUE
             /\ callFrame' = batchId
             /\ batches' = [batches EXCEPT ![batchId].settled = TRUE,
                                           ![batchId].clearingPrice = clearingPrice]
             /\ bonds' = SlashBonds(batchId)
             /\ UNCHANGED <<now, activeBatchId, vaultQueue, vaultQueued,
                            commitments, refunded, preimage, vaults, paused, vmEnv,
                            balance>>

\* The return of onLiquidationSettle into the settle that called it, and the
\* end of that settle
settleReturn ==
    /\ callFrame # 0
    /\ LET batch == BatchAt(callFrame)
       IN  vaults' = onLiquidationSettle(batch.vaultIds,
                                         FilledQty(batch, batch.clearingPrice)).vaults
    /\ entered' = FALSE
    /\ callFrame' = 0
    /\ UNCHANGED <<now, activeBatchId, vaultQueue, vaultQueued, batches,
                   commitments, bonds, refunded, preimage, paused, vmEnv, balance>>

\* ------------------------------------------------------------------------
\* Specification
\* ------------------------------------------------------------------------
Next ==
    \/ Tick
    \/ \E v \in Vaults : enqueue(v)
    \/ startBatch
    \/ \E c \in Bidders, b \in BatchIds, pre \in CommitTuples, value \in BondValues :
          commitBid(c, b, pre, value)
    \/ \E c \in Bidders, b \in BatchIds, p \in RevealParams, ok \in BOOLEAN :
          revealBid(c, b, p[1], p[2], p[3], p[4], ok)
    \/ \E b \in BatchIds : settle(b)

Spec == Init /\ [][Next]_vars

\* The commit and reveal phases of the first batch over the wider inputs: the
\* state after enqueue(1) and startBatch at now = 1, then commitBid and
\* revealBid for batch 1 as time passes
InitFirstBatch ==
    /\ now = 1
    /\ activeBatchId = 1
    /\ vaultQueue = <<>>
    /\ vaultQueued = [v \in Vaults |-> FALSE]
    /\ batches = [b \in BatchIds |->
          IF b = 1
          THEN [EmptyBatch EXCEPT !.startCommitTs = 1,
                                  !.startRevealTs = 1 + COMMIT_WINDOW,
                                  !.vaultIds = <<1>>,
                                  !.totalQtyOffered = minLot]
          ELSE EmptyBatch]
    /\ commitments = [b \in BatchIds |-> [a \in Bidders |-> 0]]
    /\ bonds = [b \in BatchIds |-> [a \in Bidders |-> 0]]
    /\ vaults = [v \in Vaults |-> [shares |-> 4, debt |-> 10, active |-> TRUE]]
    /\ paused = FALSE
    /\ refunded = [b \in BatchIds |-> [a \in Bidders |-> 0]]
    /\ preimage = [b \in BatchIds |-> [a \in Bidders |-> <<>>]]
    /\ entered = FALSE
    /\ callFrame = 0
    /\ balance = 0
    /\ InitEnv

NextFirstBatch ==
    \/ Tick
    \/ \E c \in Bidders, pre \in WideCommitTuples, value \in BondValues :
          commitBid(c, 1, pre, value)
    \/ \E c \in Bidders, p \in WideRevealParams, ok \in BOOLEAN :
          revealBid(c, 1, p[1], p[2], p[3], p[4], ok)

SpecFirstBatch == InitFirstBatch /\ [][NextFirstBatch]_vars

\* The queue and the formation of batches over several vaults: vaults are
\* enqueued (again, once a batch has taken them), batches are started as the
\* windows elapse, and settled
InitQueue ==
    /\ now = 1
    /\ activeBatchId = 0
    /\ vaultQueue = <<>>
    /\ vaultQueued = [v \in QueueVaults |-> FALSE]
    /\ batches = [b \in BatchIds |-> EmptyBatch]
    /\ commitments = [b \in BatchIds |-> [a \in Bidders |-> 0]]
    /\ bonds = [b \in BatchIds |-> [a \in Bidders |-> 0]]
    /\ vaults = [v \in QueueVaults |-> [shares |-> 4, debt |-> 10, active |-> TRUE]]
    /\ paused = FALSE
    /\ refunded = [b \in BatchIds |-> [a \in Bidders |-> 0]]
    /\ preimage = [b \in BatchIds |-> [a \in Bidders |-> <<>>]]
    /\ entered = FALSE
    /\ callFrame = 0
    /\ balance = 0
    /\ InitEnv

NextQueue ==
    \/ Tick
    \/ \E v \in QueueVaults : enqueue(v)
    \/ startBatch
    \/ \E b \in BatchIds : settle(b)

SpecQueue == InitQueue /\ [][NextQueue]_vars

\* The auctions over batches of two vaults and of one: the state after
\* enqueue(1), enqueue(2) and enqueue(3), then batches are started, bid on and
\* settled
InitOffer ==
    /\ now = 1
    /\ activeBatchId = 0
    /\ vaultQueue = <<1, 2, 3>>
    /\ vaultQueued = [v \in QueueVaults |-> TRUE]
    /\ batches = [b \in BatchIds |-> EmptyBatch]
    /\ commitments = [b \in BatchIds |-> [a \in Bidders |-> 0]]
    /\ bonds = [b \in BatchIds |-> [a \in Bidders |-> 0]]
    /\ vaults = [v \in QueueVaults |-> [shares |-> 4, debt |-> 10, active |-> TRUE]]
    /\ paused = FALSE
    /\ refunded = [b \in BatchIds |-> [a \in Bidders |-> 0]]
    /\ preimage = [b \in BatchIds |-> [a \in Bidders |-> <<>>]]
    /\ entered = FALSE
    /\ callFrame = 0
    /\ balance = 0
    /\ InitEnv

NextOffer ==
    \/ Tick
    \/ startBatch
    \/ \E c \in Bidders, b \in BatchIds, pre \in CommitTuples, value \in BondValues :
          commitBid(c, b, pre, value)
    \/ \E c \in Bidders, b \in BatchIds, p \in RevealParams, ok \in BOOLEAN :
          revealBid(c, b, p[1], p[2], p[3], p[4], ok)
    \/ \E b \in BatchIds : settle(b)

SpecOffer == InitOffer /\ [][NextOffer]_vars

\* The first batch with bidders that commit again, to another bid and with
\* another bond, and then reveal
NextRecommit ==
    \/ Tick
    \/ \E c \in Bidders, pre \in WideCommitTuples, value \in RecommitValues :
          commitBid(c, 1, pre, value)
    \/ \E c \in Bidders, p \in RevealParams :
          revealBid(c, 1, p[1], p[2], p[3], p[4], TRUE)

SpecRecommit == InitFirstBatch /\ [][NextRecommit]_vars

\* The auction of the first batch from its start to its settlement: each
\* bidder commits to a bid bound to its own address, reveals the committed
\* tuple or the uncommitted one, and the batch is settled
NextAuction ==
    \/ Tick
    \/ \E c \in Bidders, q \in AuctionQtys, p \in AuctionPrices :
          commitBid(c, 1, <<1, q, p, 1, c>>, 2)
    \/ \E c \in Bidders, committed \in BOOLEAN :
          LET p == IF committed /\ preimage[1][c] # <<>>
                   THEN preimage[1][c] ELSE UncommittedReveal
          IN  revealBid(c, 1, p[1], p[2], p[3], p[4], TRUE)
    \/ settle(1)

SpecAuction == InitFirstBatch /\ [][NextAuction]_vars

\* The engine with the external call of settle as a point of its own: while
\* the call is in progress no time passes (one transaction) and any function
\* of the engine may be invoked from inside it
NextReentry ==
    \/ callFrame = 0 /\ Tick
    \/ \E v \in Vaults : enqueue(v)
    \/ startBatch
    \/ \E c \in Bidders, b \in BatchIds, pre \in CommitTuples, value \in BondValues :
          commitBid(c, b, pre, value)
    \/ \E c \in Bidders, b \in BatchIds, p \in RevealParams, ok \in BOOLEAN :
          revealBid(c, b, p[1], p[2], p[3], p[4], ok)
    \/ \E b \in BatchIds :
          /\ ~CallbackDue(BatchAt(b), CalculateClearingPrice(BatchAt(b)))
          /\ settle(b)
    \/ \E b \in BatchIds : settleEnter(b)
    \/ settleReturn

SpecReentry == Init /\ [][NextReentry]_vars

\* VaultManager.pause() and unpause(), called by the holder of PAUSER_ROLE:
\* Pausable._pause requires the contract not to be paused, _unpause requires
\* it to be paused
pause ==
    IF paused THEN Revert("pause", "admin", 0, "EnforcedPause")
    ELSE /\ paused' = TRUE
         /\ UNCHANGED <<now, engineVars, vaults, vmEnv>>

unpause ==
    IF ~paused THEN Revert("unpause", "admin", 0, "ExpectedPause")
    ELSE /\ paused' = FALSE
         /\ UNCHANGED <<now, engineVars, vaults, vmEnv>>

\* The commitment a bidder computes for its own bid
OwnTuple(c) == CHOOSE pre \in CommitTuples : pre[5] = c

\* The engine next to a VaultManager that its admin pauses and unpauses at
\* any time, so that the callback of settle can fail; every bidder commits
\* to its own bid
NextPausable ==
    \/ Tick
    \/ \E v \in Vaults : enqueue(v)
    \/ startBatch
    \/ \E c \in Bidders, b \in BatchIds, value \in BondValues :
          commitBid(c, b, OwnTuple(c), value)
    \/ \E c \in Bidders, b \in BatchIds, p \in RevealParams, ok \in BOOLEAN :
          revealBid(c, b, p[1], p[2], p[3], p[4], ok)
    \/ \E b \in BatchIds : settle(b)
    \/ pause
    \/ unpause

SpecPausable == Init /\ [][NextPausable]_vars

\* ------------------------------------------------------------------------
\* VaultManager: the health computation and what it reads
\* ------------------------------------------------------------------------
\* The sum of the prices, and the number, of the first k ring points whose
\* timestamp is not before from
RECURSIVE TwapSum(_, _, _)
TwapSum(o, from, k) ==
    IF k = 0 THEN [sum |-> 0, n |-> 0]
    ELSE LET r == TwapSum(o, from, k - 1)
             pt == o.ring[k - 1]
         IN  IF pt.t >= from THEN [sum |-> r.sum + pt.p, n |-> r.n + 1] ELSE r

\* GuardedOracle.getPrice(asset): the paused, stale and bounds checks on the
\* latest price; then the latest price when the TWAP is off or no point lies
\* in the window, else the average of the points in the window; or the
\* error of the failed check
GetPrice(o) ==
    IF o.paused THEN [err |-> "OraclePaused", price |-> 0]
    ELSE IF o.maxStale > 0 /\ now - o.updatedAt > o.maxStale
         THEN [err |-> "StalePrice", price |-> 0]
    ELSE IF o.minPrice > 0 /\ o.price < o.minPrice
         THEN [err |-> "PriceBelowMin", price |-> 0]
    ELSE IF o.maxPrice > 0 /\ o.price > o.maxPrice
         THEN [err |-> "PriceAboveMax", price |-> 0]
    ELSE IF o.twapWindow = 0 THEN [err |-> "ok", price |-> o.price]
    ELSE IF o.twapWindow > now THEN [err |-> "Panic", price |-> 0]
    ELSE LET w == TwapSum(o, now - o.twapWindow, o.count)
         IN  IF w.sum > UINT_MAX THEN [err |-> "Panic", price |-> 0]
             ELSE IF w.n = 0 THEN [err |-> "ok", price |-> o.price]
             ELSE [err |-> "ok", price |-> w.sum \div w.n]

\* adapter.valueOf(shares) = vault.previewRedeem(shares) = convertToAssets:
\* shares * totalAssets / totalSupply in checked arithmetic
ValueOf(sv, shares) ==
    IF sv.totalSupply = 0 THEN [err |-> "ok", assets |-> shares]
    ELSE IF shares * sv.totalAssets > UINT_MAX THEN [err |-> "Panic", assets |-> 0]
    ELSE [err |-> "ok", assets |-> (shares * sv.totalAssets) \div sv.totalSupply]

\* _getVaultHealth over a vault record, the collateral configuration, the
\* ERC4626 vault and the oracle: the returned tuple, or the error it reverts
\* with (err # "ok")
GetVaultHealth(vault, config, sv, o) ==
    LET debt == vault.debt
        ltvBps == config.ltvBps
        out(cv, healthy) == [err |-> "ok", collateralValueWad |-> cv, debt |-> debt,
                             ltvBps |-> ltvBps, healthy |-> healthy]
        fail(e) == [err |-> e, collateralValueWad |-> 0, debt |-> debt,
                    ltvBps |-> ltvBps, healthy |-> FALSE]
        a == ValueOf(sv, vault.shares)
        p == GetPrice(o)
    IN  IF ~config.enabled \/ ~vault.active THEN out(0, debt = 0)
        ELSE IF a.err # "ok" THEN fail(a.err)
        ELSE IF p.err # "ok" THEN fail(p.err)
        ELSE IF a.assets > 0 /\ p.price > UINT_MAX \div a.assets THEN fail("MathOverflow")
        ELSE LET collateralValueWad == a.assets * p.price
             IN  IF debt = 0 THEN out(collateralValueWad, TRUE)
                 ELSE IF collateralValueWad = 0 THEN out(collateralValueWad, FALSE)
                 ELSE IF ltvBps = 0 THEN fail("Panic")
                 ELSE IF collateralValueWad > UINT_MAX \div ltvBps
                      THEN out(collateralValueWad, TRUE)
                 ELSE out(collateralValueWad,
                          debt <= (collateralValueWad * ltvBps) \div MAX_BPS)

\* _isLiquidationEligible over the same inputs: the returned flag, or the
\* error of the health computation it calls
IsLiquidationEligible(vault, config, sv, o) ==
    LET h == GetVaultHealth(vault, config, sv, o)
    IN  IF ~vault.active \/ vault.debt = 0 THEN [err |-> "ok", eligible |-> FALSE]
        ELSE IF h.err # "ok" THEN [err |-> h.err, eligible |-> FALSE]
        ELSE IF h.collateralValueWad = 0 THEN [err |-> "ok", eligible |-> TRUE]
        ELSE IF h.debt > UINT_MAX \div MCR_BPS THEN [err |-> "ok", eligible |-> TRUE]
        ELSE [err |-> "ok",
              eligible |-> h.collateralValueWad < (h.debt * MCR_BPS) \div MAX_BPS]

\* isLiquidationEligible(vaultId) in the current state
isLiquidationEligible(vaultId) ==
    IsLiquidationEligible(vaults[vaultId], collaterals, shareVault, oracle)

\* vaultHealth(vaultId) in the current state
vaultHealth(vaultId) ==
    GetVaultHealth(vaults[vaultId], collaterals, shareVault, oracle)

\* GuardedOracle.pushPrice(asset, price), called by the oracle admin
pushPrice(price) ==
    /\ oracle' = Push(oracle, price, now)
    /\ UNCHANGED <<now, engineVars, vaults, paused, collaterals, shareVault, stable>>

\* GuardedOracle.setPaused(p)
setPaused(p) ==
    /\ oracle' = [oracle EXCEPT !.paused = p]
    /\ UNCHANGED <<now, engineVars, vaults, paused, collaterals, shareVault, stable>>

\* VaultManager.setCollateral(key, adapter, ltvBps, enabled), called by the
\* risk admin
setCollateral(ltvBps, enabled) ==
    IF ltvBps > MAX_BPS THEN Revert("setCollateral", "admin", 0, "LTVExceedsMaximum")
    ELSE /\ collaterals' = [ltvBps |-> ltvBps, enabled |-> enabled]
         /\ UNCHANGED <<now, engineVars, vaults, paused, oracle, shareVault, stable>>

\* The health computation over its inputs: a vault with any of the holdings
\* and debts, the one ERC4626 vault holding its shares at one asset per
\* share, any accepted collateral setting and any price, with or without a
\* staleness limit; then prices are pushed, the oracle is paused and
\* unpaused, the collateral is reconfigured and time passes
InitHealth ==
    /\ now = 1
    /\ activeBatchId = 0
    /\ vaultQueue = <<>>
    /\ vaultQueued = [v \in Vaults |-> FALSE]
    /\ batches = [b \in BatchIds |-> EmptyBatch]
    /\ commitments = [b \in BatchIds |-> [a \in Bidders |-> 0]]
    /\ bonds = [b \in BatchIds |-> [a \in Bidders |-> 0]]
    /\ \E s \in ShareValues, d \in DebtValues :
          /\ vaults = [v \in Vaults |-> [shares |-> s, debt |-> d, active |-> TRUE]]
          /\ shareVault = [totalAssets |-> s, totalSupply |-> s]
    /\ paused = FALSE
    /\ refunded = [b \in BatchIds |-> [a \in Bidders |-> 0]]
    /\ preimage = [b \in BatchIds |-> [a \in Bidders |-> <<>>]]
    /\ entered = FALSE
    /\ callFrame = 0
    /\ balance = 0
    /\ stable = 0
    /\ \E l \in LtvValues, e \in BOOLEAN : collaterals = [ltvBps |-> l, enabled |-> e]
    /\ \E p \in PriceValues, ms \in {0, 2} :
          oracle = Push(NewOracle(ms), p, 1)

NextHealth ==
    \/ Tick
    \/ \E p \in PriceValues : pushPrice(p)
    \/ \E p \in BOOLEAN : setPaused(p)
    \/ \E l \in LtvValues, e \in BOOLEAN : setCollateral(l, e)

SpecHealth == InitHealth /\ [][NextHealth]_vars

\* ------------------------------------------------------------------------
\* Vocabulary of the properties
\* ------------------------------------------------------------------------
Started(b) == batches[b].startCommitTs > 0

\* The end of the reveal window of batch b
WindowEnd(b) == batches[b].startRevealTs + REVEAL_WINDOW

\* Bidder a has a revealed bid in batch b that is valid / invalid
HasValidReveal(b, a) ==
    \E i \in 1..Len(batches[b].revealedBids) :
        batches[b].revealedBids[i].bidder = a /\ batches[b].revealedBids[i].valid

HasInvalidReveal(b, a) ==
    \E i \in 1..Len(batches[b].revealedBids) :
        batches[b].revealedBids[i].bidder = a /\ ~batches[b].revealedBids[i].valid

\* This step is a successful settle of batch b
SettleStep(b) == ~batches[b].settled /\ batches'[b].settled

\* This step is a successful revealBid into batch b; the bid it records
RevealStep(b) == Len(batches'[b].revealedBids) = Len(batches[b].revealedBids) + 1

NewBid(b) == batches'[b].revealedBids[Len(batches'[b].revealedBids)]

\* This step is a successful commitBid by a for batch b that changed a slot
CommitStep(b, a) ==
    \/ commitments'[b][a] # commitments[b][a]
    \/ bonds'[b][a] > bonds[b][a]
    \/ preimage'[b][a] # preimage[b][a]

\* ------------------------------------------------------------------------
\* C1: once settle(b) has succeeded, every later settle(b) reverts with
\* BatchAlreadySettled, and no later step changes the batch's settled flag,
\* its clearing price or the bonds recorded for it; the vaults change only in
\* a step that settles a batch for the first time.
\* ------------------------------------------------------------------------
C1_SettleOnce ==
    /\ [](\A b \in BatchIds :
            batches[b].settled => SettleError(b) = "BatchAlreadySettled")
    /\ [][ /\ \A b \in BatchIds : batches[b].settled =>
                /\ batches'[b].settled
                /\ batches'[b].clearingPrice = batches[b].clearingPrice
                /\ bonds'[b] = bonds[b]
           /\ (\A b \in BatchIds : ~SettleStep(b)) => vaults' = vaults ]_vars

C1_Witness ==
    \E b \in BatchIds, a \in Bidders :
        /\ batches[b].settled
        /\ batches[b].clearingPrice > 0
        /\ bonds[b][a] > 0

\* ------------------------------------------------------------------------
\* C2 as stated: at most one started batch has settled = FALSE.
\* ------------------------------------------------------------------------
C2_AtMostOneUnsettled ==
    \A b1, b2 \in BatchIds :
        (Started(b1) /\ Started(b2) /\ ~batches[b1].settled /\ ~batches[b2].settled)
            => b1 = b2

\* C2 as amended: at most one started batch is inside its commit+reveal window
\* (now < startRevealTs + REVEAL_WINDOW); a batch whose window has elapsed may
\* stay unsettled while a newer batch runs.
C2_AtMostOneInWindow ==
    \A b1, b2 \in BatchIds :
        (Started(b1) /\ Started(b2) /\ now < WindowEnd(b1) /\ now < WindowEnd(b2))
            => b1 = b2

C2_Witness ==
    \E b1, b2 \in BatchIds :
        /\ b1 # b2 /\ Started(b1) /\ Started(b2)
        /\ ~batches[b1].settled /\ ~batches[b2].settled
        /\ now < WindowEnd(b2)

\* ------------------------------------------------------------------------
\* C3: while a started batch is inside its commit+reveal window startBatch
\* reverts, with BatchNotActive whenever the queue is not empty (the EmptyQueue
\* check comes first), so every batch starts no earlier than the end of the
\* reveal window of every earlier batch.
\* ------------------------------------------------------------------------
C3_NoStartInsideWindow ==
    /\ \A b \in BatchIds :
          (Started(b) /\ now < WindowEnd(b)) =>
              /\ StartBatchError # "ok"
              /\ Len(vaultQueue) > 0 => StartBatchError = "BatchNotActive"
    /\ \A b1, b2 \in BatchIds :
          (Started(b1) /\ Started(b2) /\ b1 < b2) =>
              batches[b2].startCommitTs >= WindowEnd(b1)

C3_Witness ==
    /\ Len(vaultQueue) > 0
    /\ \E b \in BatchIds :
          Started(b) /\ batches[b].startRevealTs <= now /\ now < WindowEnd(b)

\* ------------------------------------------------------------------------
\* C4: a batch's revealedBids never holds two records of the same bidder.
\* ------------------------------------------------------------------------
C4_OneRevealPerBidder ==
    \A b \in BatchIds :
        \A i, j \in 1..Len(batches[b].revealedBids) :
            batches[b].revealedBids[i].bidder = batches[b].revealedBids[j].bidder
                => i = j

\* ------------------------------------------------------------------------
\* C5: once a batch is settled, the bond slot of every bidder who committed
\* to it and has no valid reveal in it is empty (the bond was forfeited), and
\* nothing was refunded to a bidder without a valid reveal.
\* ------------------------------------------------------------------------
C5_UnrevealedBondForfeited ==
    \A b \in BatchIds, a \in Bidders :
        (batches[b].settled /\ commitments[b][a] # 0 /\ ~HasValidReveal(b, a))
            => (bonds[b][a] = 0 /\ refunded[b][a] = 0)

\* ------------------------------------------------------------------------
\* C6: a settle that records a clearing price > 0 takes the filled quantity
\* (the sum of the pro-rata allocations) out of the shares of the batch's
\* vaults, and reduces each such vault's debt by floor(debt * filled / shares).
\* ------------------------------------------------------------------------
RECURSIVE SumAllocations(_, _, _)
SumAllocations(batch, clearingPrice, i) ==
    IF i > Len(batch.revealedBids) THEN 0
    ELSE Allocation(batch, clearingPrice, batch.revealedBids[i])
         + SumAllocations(batch, clearingPrice, i + 1)

RECURSIVE SumSharesTaken(_, _)
SumSharesTaken(vaultIds, i) ==
    IF i > Len(vaultIds) THEN 0
    ELSE (vaults[vaultIds[i]].shares - vaults'[vaultIds[i]].shares)
         + SumSharesTaken(vaultIds, i + 1)

C6_SettleReducesVaults ==
    [][ \A b \in BatchIds :
          (SettleStep(b) /\ batches'[b].clearingPrice > 0) =>
              /\ SumSharesTaken(batches[b].vaultIds, 1) =
                     SumAllocations(batches[b], batches'[b].clearingPrice, 1)
              /\ \A i \in 1..Len(batches[b].vaultIds) :
                    LET v == batches[b].vaultIds[i]
                        filled == vaults[v].shares - vaults'[v].shares
                    IN  vaults[v].shares > 0 =>
                          vaults'[v].debt = vaults[v].debt
                              - ((vaults[v].debt * filled) \div vaults[v].shares) ]_vars

\* ------------------------------------------------------------------------
\* C7: a revealed bid is valid exactly when the commitment stored for its
\* bidder was computed from the revealed (vaultId, qty, price, salt) and the
\* bidder's own address; a difference in any component, or a commitment that
\* binds another address, gives valid = FALSE.
\* ------------------------------------------------------------------------
C7_ValidIffCommitted ==
    \A b \in BatchIds :
        \A i \in 1..Len(batches[b].revealedBids) :
            LET bid == batches[b].revealedBids[i]
            IN  bid.valid <=>
                  preimage[b][bid.bidder] =
                      <<bid.vaultId, bid.qty, bid.price, bid.saltHash, bid.bidder>>

C7_Witness ==
    \E b \in BatchIds, a \in Bidders :
        /\ HasValidReveal(b, a)
        /\ \E c \in Bidders :
              /\ \E i \in 1..Len(batches[b].revealedBids) :
                    LET bid == batches[b].revealedBids[i]
                    IN  /\ bid.bidder = c /\ ~bid.valid
                        /\ preimage[b][c] =
                             <<bid.vaultId, bid.qty, bid.price, bid.saltHash,
                               preimage[b][c][5]>>
                        /\ preimage[b][c][5] # c

\* ------------------------------------------------------------------------
\* C8: the step that records a valid bid of bidder a in batch b pays a exactly
\* the bond recorded for (b, a) and leaves that bond at 0.
\* ------------------------------------------------------------------------
C8_ValidRevealRefundsBond ==
    [][ \A b \in BatchIds :
          (RevealStep(b) /\ NewBid(b).valid) =>
              /\ refunded'[b][NewBid(b).bidder] =
                     refunded[b][NewBid(b).bidder] + bonds[b][NewBid(b).bidder]
              /\ bonds'[b][NewBid(b).bidder] = 0 ]_vars

C8_Witness ==
    \E b \in BatchIds, a \in Bidders :
        HasValidReveal(b, a) /\ refunded[b][a] > minCommitBond /\ bonds[b][a] = 0

\* ------------------------------------------------------------------------
\* C9: a bidder with a bid recorded as invalid in a batch is never refunded
\* for that batch, and after settlement the bond is no longer in the slot.
\* ------------------------------------------------------------------------
C9_InvalidRevealNoRefund ==
    \A b \in BatchIds, a \in Bidders :
        HasInvalidReveal(b, a) =>
            /\ refunded[b][a] = 0
            /\ batches[b].settled => bonds[b][a] = 0

\* ------------------------------------------------------------------------
\* C10: for a started batch and a sufficient bond, commitBid is accepted
\* exactly while now < startRevealTs and reverts with CommitWindowClosed from
\* now = startRevealTs on; revealBid reverts with NotInRevealPhase before
\* startRevealTs and with RevealWindowClosed from startRevealTs + REVEAL_WINDOW
\* on, and passes the phase checks exactly in between; commitments are
\* written and bids recorded only inside these windows.
\* ------------------------------------------------------------------------
C10_PhaseGating ==
    /\ [](\A b \in BatchIds : Started(b) =>
            /\ \A value \in BondValues : value >= minCommitBond =>
                  /\ (now < batches[b].startRevealTs)
                        <=> CommitBidError(b, value) = "ok"
                  /\ (now >= batches[b].startRevealTs)
                        <=> CommitBidError(b, value) = "CommitWindowClosed"
            /\ \A c \in Bidders :
                  /\ (now < batches[b].startRevealTs)
                        <=> RevealBidError(c, b) = "NotInRevealPhase"
                  /\ (now >= WindowEnd(b))
                        <=> RevealBidError(c, b) = "RevealWindowClosed"
                  /\ (batches[b].startRevealTs <= now /\ now < WindowEnd(b))
                        <=> RevealBidError(c, b) \in {"ok", "NoCommitmentFound"})
    /\ [][ \A b \in BatchIds :
             /\ (\E a \in Bidders : CommitStep(b, a)) =>
                    (Started(b) /\ now < batches[b].startRevealTs)
             /\ RevealStep(b) =>
                    (batches[b].startRevealTs <= now /\ now < WindowEnd(b)) ]_vars

C10_Witness ==
    \E b \in BatchIds, a \in Bidders :
        /\ Started(b) /\ commitments[b][a] # 0
        /\ now = batches[b].startRevealTs
        /\ Len(batches[b].revealedBids) > 0

\* ------------------------------------------------------------------------
\* C11: for a started batch settle reverts with CannotSettleYet as long as
\* now < startRevealTs + REVEAL_WINDOW; whenever settle would be accepted, or
\* the batch is settled, neither a commit nor a reveal for it is accepted; a
\* batch is settled only at or after the end of its reveal window and no bid
\* is recorded in a settled batch.
\* ------------------------------------------------------------------------
C11_SettleAfterWindow ==
    /\ [](\A b \in BatchIds : Started(b) =>
            /\ now < WindowEnd(b) => SettleError(b) = "CannotSettleYet"
            /\ (SettleError(b) = "ok" \/ batches[b].settled) =>
                  /\ \A value \in BondValues : CommitBidError(b, value) # "ok"
                  /\ \A c \in Bidders : RevealBidError(c, b) # "ok")
    /\ [][ \A b \in BatchIds :
             /\ SettleStep(b) => now >= WindowEnd(b)
             /\ RevealStep(b) => ~batches[b].settled
             /\ batches[b].settled =>
                    batches'[b].revealedBids = batches[b].revealedBids ]_vars

C11_Witness ==
    \E b1, b2 \in BatchIds :
        /\ batches[b1].settled /\ Len(batches[b1].revealedBids) > 0
        /\ Started(b2) /\ now < WindowEnd(b2)
        /\ \E a \in Bidders : commitments[b2][a] # 0

\* ------------------------------------------------------------------------
\* C12: the clearing price computed for a batch, and recorded by settle, is
\* the uniform price over the valid bids only: the highest valid price p such
\* that the valid bids priced at or above p together reach totalQtyOffered
\* (the price of the first bid, in descending price order, at which the
\* cumulative quantity reaches the offer), or the lowest valid price if the
\* valid demand stays below the offer, or 0 without valid bids.
\* ------------------------------------------------------------------------
ValidIx(batch) ==
    { i \in 1..Len(batch.revealedBids) : batch.revealedBids[i].valid }

RECURSIVE QtyOver(_, _)
QtyOver(batch, ix) ==
    IF ix = {} THEN 0
    ELSE LET i == CHOOSE k \in ix : TRUE
         IN  batch.revealedBids[i].qty + QtyOver(batch, ix \ {i})

ValidDemandAt(batch, p) ==
    QtyOver(batch, { i \in ValidIx(batch) : batch.revealedBids[i].price >= p })

ReferencePrice(batch) ==
    LET prices == { batch.revealedBids[i].price : i \in ValidIx(batch) }
        reach == { p \in prices : ValidDemandAt(batch, p) >= batch.totalQtyOffered }
    IN  IF prices = {} THEN 0
        ELSE IF reach # {} THEN CHOOSE p \in reach : \A q \in reach : q <= p
        ELSE CHOOSE p \in prices : \A q \in prices : p <= q

C13_NoValidBidSettlesAtZero ==
    /\ [](\A b \in BatchIds : ValidIx(batches[b]) = {} =>
            /\ CalculateClearingPrice(batches[b]) = 0
            /\ ~CallbackDue(batches[b], CalculateClearingPrice(batches[b])))
    /\ [][ \A b \in BatchIds :
             (SettleStep(b) /\ ValidIx(batches[b]) = {}) =>
                 /\ batches'[b].settled
                 /\ batches'[b].clearingPrice = 0
                 /\ vaults' = vaults
                 /\ refunded' = refunded
                 /\ callFrame' = 0 ]_vars

C13_Witness ==
    \E b \in BatchIds :
        /\ batches[b].settled /\ batches[b].clearingPrice = 0
        /\ Len(batches[b].revealedBids) > 0 /\ ValidIx(batches[b]) = {}
        /\ batches[b].revealedBids[1].price > 0

\* ------------------------------------------------------------------------
\* C14: every vault of a batch that was settled with clearing price 0 is
\* still pending: it is in the engine's queue (and flagged as queued) or
\* already part of a later batch.
\* ------------------------------------------------------------------------
C14_ZeroPriceVaultsStayQueued ==
    \A b \in BatchIds :
        (batches[b].settled /\ batches[b].clearingPrice = 0) =>
            \A i \in 1..Len(batches[b].vaultIds) :
                LET v == batches[b].vaultIds[i]
                IN  \/ vaultQueued[v] /\ \E k \in 1..Len(vaultQueue) : vaultQueue[k] = v
                    \/ \E b2 \in BatchIds :
                          b2 > b /\ \E k \in 1..Len(batches[b2].vaultIds) :
                                       batches[b2].vaultIds[k] = v

\* ------------------------------------------------------------------------
\* C15 as stated: with D the valid demand at or above the clearing price, a
\* winning bid's allocation is floor(qty * min(1, totalQtyOffered / D)), it is
\* at most qty, and every other bid is allocated 0.
\* ------------------------------------------------------------------------
Winning(batch, clearingPrice, bid) == bid.valid /\ bid.price >= clearingPrice

ExactShare(batch, clearingPrice, bid) ==
    LET D == ValidDemandAt(batch, clearingPrice)
    IN  IF batch.totalQtyOffered >= D THEN bid.qty
        ELSE (bid.qty * batch.totalQtyOffered) \div D

C15_AllocationIsExactShare ==
    \A b \in BatchIds :
        LET batch == batches[b]
            cp == CalculateClearingPrice(batch)
        IN  CallbackDue(batch, cp) =>
              \A i \in 1..Len(batch.revealedBids) :
                 LET bid == batch.revealedBids[i]
                 IN  /\ Allocation(batch, cp, bid) <= bid.qty
                     /\ Winning(batch, cp, bid) =>
                           Allocation(batch, cp, bid) = ExactShare(batch, cp, bid)
                     /\ ~Winning(batch, cp, bid) => Allocation(batch, cp, bid) = 0

\* C15 as amended: the allocation is computed through the fill ratio rounded
\* down to a multiple of 1/WAD, so it never exceeds the exact share
\* floor(qty * min(1, totalQtyOffered / D)) and falls short of it by at most
\* 1 + floor(qty / WAD); it equals qty when the offer covers D, it is at most
\* qty, and every bid that is invalid or priced below the clearing price is
\* allocated 0.
C15_AllocationWithinRounding ==
    \A b \in BatchIds :
        LET batch == batches[b]
            cp == CalculateClearingPrice(batch)
        IN  CallbackDue(batch, cp) =>
              \A i \in 1..Len(batch.revealedBids) :
                 LET bid == batch.revealedBids[i]
                     alloc == Allocation(batch, cp, bid)
                     exact == ExactShare(batch, cp, bid)
                 IN  /\ alloc <= bid.qty
                     /\ Winning(batch, cp, bid) =>
                           /\ alloc <= exact
                           /\ exact - alloc <= 1 + (bid.qty \div WAD)
                           /\ batch.totalQtyOffered >= ValidDemandAt(batch, cp)
                                 => alloc = bid.qty
                     /\ ~Winning(batch, cp, bid) => alloc = 0

C15_Witness ==
    \E b \in BatchIds :
        LET batch == batches[b]
        IN  /\ batch.settled /\ batch.clearingPrice > 0
            /\ ValidDemandAt(batch, batch.clearingPrice) > batch.totalQtyOffered
            /\ \E i \in 1..Len(batch.revealedBids) :
                  LET bid == batch.revealedBids[i]
                  IN  /\ Winning(batch, batch.clearingPrice, bid)
                      /\ Allocation(batch, batch.clearingPrice, bid)
                            < ExactShare(batch, batch.clearingPrice, bid)

\* ------------------------------------------------------------------------
\* C16: in an oversubscribed batch (valid demand at or above the clearing
\* price exceeds the offer) any two valid bids at the same price level are
\* allocated in the ratio of their quantities up to rounding down by less
\* than one unit: some common ratio r satisfies alloc <= qty * r < alloc + 1
\* for both, that is, the intervals [alloc/qty, (alloc+1)/qty) of the two bids
\* overlap.
\* ------------------------------------------------------------------------
C16_ProRataFairness ==
    \A b \in BatchIds :
        LET batch == batches[b]
            cp == CalculateClearingPrice(batch)
        IN  (CallbackDue(batch, cp)
             /\ ValidDemandAt(batch, cp) > batch.totalQtyOffered) =>
              \A i, j \in ValidIx(batch) :
                 LET x == batch.revealedBids[i]
                     y == batch.revealedBids[j]
                     ax == Allocation(batch, cp, x)
                     ay == Allocation(batch, cp, y)
                 IN  x.price = y.price =>
                        /\ ax * y.qty < (ay + 1) * x.qty
                        /\ ay * x.qty < (ax + 1) * y.qty

C16_Witness ==
    \E b \in BatchIds :
        LET batch == batches[b]
        IN  /\ batch.settled /\ batch.clearingPrice > 0
            /\ ValidDemandAt(batch, batch.clearingPrice) > batch.totalQtyOffered
            /\ \E i, j \in ValidIx(batch) :
                  LET x == batch.revealedBids[i]
                      y == batch.revealedBids[j]
                  IN  /\ x.price = y.price /\ x.price >= batch.clearingPrice
                      /\ x.qty < y.qty
                      /\ Allocation(batch, batch.clearingPrice, y) > 0

\* ------------------------------------------------------------------------
\* C17: for every batch, adding a valid bid priced strictly above the
\* current clearing price (in particular one priced above all valid bids), at
\* any position of the reveal order, never lowers the computed clearing
\* price, and removing a valid bid of the highest price never raises it.
\* ------------------------------------------------------------------------
ExtraPrices == AuctionPrices \cup {4}

ExtraBids ==
    { MakeBid("b1", 1, q, p, 1, TRUE) : q \in AuctionQtys, p \in ExtraPrices }

WithBidAt(batch, bid, k) ==
    [batch EXCEPT !.revealedBids =
        SubSeq(@, 1, k) \o <<bid>> \o SubSeq(@, k + 1, Len(@))]

WithoutBid(batch, i) ==
    [batch EXCEPT !.revealedBids = SubSeq(@, 1, i - 1) \o SubSeq(@, i + 1, Len(@))]

IsHighest(batch, i) ==
    \A j \in ValidIx(batch) :
        batch.revealedBids[j].price <= batch.revealedBids[i].price

C17_ClearingPriceMonotone ==
    \A b \in BatchIds :
        LET batch == batches[b]
        IN  /\ \A bid \in ExtraBids :
                  bid.price > CalculateClearingPrice(batch) =>
                      \A k \in 0..Len(batch.revealedBids) :
                          CalculateClearingPrice(WithBidAt(batch, bid, k))
                              >= CalculateClearingPrice(batch)
            /\ \A i \in ValidIx(batch) :
                  IsHighest(batch, i) =>
                      CalculateClearingPrice(WithoutBid(batch, i))
                          <= CalculateClearingPrice(batch)

C17_Witness ==
    \E b \in BatchIds :
        LET batch == batches[b]
        IN  /\ batch.settled /\ batch.clearingPrice > 0
            /\ \E i \in ValidIx(batch) :
                  /\ IsHighest(batch, i)
                  /\ CalculateClearingPrice(WithoutBid(batch, i)) > 0
                  /\ CalculateClearingPrice(WithoutBid(batch, i)) < batch.clearingPrice
            /\ \E bid \in ExtraBids :
                  /\ \A j \in ValidIx(batch) : batch.revealedBids[j].price < bid.price
                  /\ CalculateClearingPrice(WithBidAt(batch, bid, 0)) > batch.clearingPrice

\* ------------------------------------------------------------------------
\* C18: the outcome of a batch does not depend on the order in which
\* different callers acted. (a) The order of the callers is visible only in
\* the order of revealedBids, and the clearing price, the callback decision
\* and every bid's allocation are the same for every reordering of
\* revealedBids. (b) A step that records a bid appends it behind the records
\* already there, decides its validity from the caller's own commitment
\* alone, and touches the commitment, bond and refund of no other bidder;
\* a step that writes a commitment touches one bidder's slots only. settle
\* does not read its caller.
\* ------------------------------------------------------------------------
Reorderings(n) ==
    { f \in [1..n -> 1..n] : \A i, j \in 1..n : f[i] = f[j] => i = j }

Reordered(batch, f) ==
    [batch EXCEPT !.revealedBids = [k \in 1..Len(@) |-> @[f[k]]]]

OrderFree(batch) ==
    \A f \in Reorderings(Len(batch.revealedBids)) :
        LET other == Reordered(batch, f)
            cp == CalculateClearingPrice(batch)
        IN  /\ CalculateClearingPrice(other) = cp
            /\ CallbackDue(other, cp) = CallbackDue(batch, cp)
            /\ FilledQty(other, cp) = FilledQty(batch, cp)
            /\ \A k \in 1..Len(batch.revealedBids) :
                  Allocation(other, cp, batch.revealedBids[k])
                      = Allocation(batch, cp, batch.revealedBids[k])

OwnSlotsOnly(b) ==
    \A a1, a2 \in Bidders :
        (a1 # a2 /\ <<commitments'[b][a1], bonds'[b][a1], refunded'[b][a1]>>
                      # <<commitments[b][a1], bonds[b][a1], refunded[b][a1]>>)
            => <<commitments'[b][a2], bonds'[b][a2], refunded'[b][a2]>>
                 = <<commitments[b][a2], bonds[b][a2], refunded[b][a2]>>

C18_OrderIndependent ==
    /\ [](\A b \in BatchIds : OrderFree(batches[b]))
    /\ [][ \A b \in BatchIds :
             /\ OwnSlotsOnly(b)
             /\ RevealStep(b) =>
                   /\ SubSeq(batches'[b].revealedBids, 1, Len(batches[b].revealedBids))
                         = batches[b].revealedBids
                   /\ NewBid(b).valid <=>
                         preimage[b][NewBid(b).bidder] =
                            <<NewBid(b).vaultId, NewBid(b).qty, NewBid(b).price,
                              NewBid(b).saltHash, NewBid(b).bidder>>
                   /\ \A a \in Bidders \ {NewBid(b).bidder} :
                         /\ commitments'[b][a] = commitments[b][a]
                         /\ bonds'[b][a] = bonds[b][a]
                         /\ refunded'[b][a] = refunded[b][a]
             /\ ~RevealStep(b) =>
                   batches'[b].revealedBids = batches[b].revealedBids ]_vars

C18_Witness ==
    \E b \in BatchIds :
        LET bids == batches[b].revealedBids
        IN  /\ batches[b].settled
            /\ Len(bids) = 2
            /\ bids[1].valid /\ bids[2].valid
            /\ bids[1].bidder # bids[2].bidder
            /\ bids[1].price < bids[2].price
            /\ batches[b].clearingPrice = bids[2].price

\* ------------------------------------------------------------------------
\* C19: a commitBid or revealBid step of caller c leaves the stored
\* commitment, the recorded bond and the revealed bid records of every other
\* bidder unchanged in every batch, and the record a revealBid appends names
\* c as its bidder; no step of any operation changes the slots of more than
\* one bidder.
\* ------------------------------------------------------------------------
RecordsOf(bids, a) == SelectSeq(bids, LAMBDA r : r.bidder = a)

OthersUntouched(c) ==
    \A b \in BatchIds, a \in Bidders \ {c} :
        /\ commitments'[b][a] = commitments[b][a]
        /\ bonds'[b][a] = bonds[b][a]
        /\ RecordsOf(batches'[b].revealedBids, a) = RecordsOf(batches[b].revealedBids, a)

C19_CallerWritesOwnSlots ==
    [][ /\ \A c \in Bidders, b \in BatchIds, pre \in CommitTuples, value \in BondValues :
              commitBid(c, b, pre, value) => OthersUntouched(c)
        /\ \A c \in Bidders, b \in BatchIds, p \in RevealParams, ok \in BOOLEAN :
              revealBid(c, b, p[1], p[2], p[3], p[4], ok) =>
                  /\ OthersUntouched(c)
                  /\ NewBid(b).bidder = c
        /\ \E c \in Bidders : OthersUntouched(c) ]_vars

C19_Witness ==
    \E b \in BatchIds, a1, a2 \in Bidders :
        /\ a1 # a2 /\ ~batches[b].settled
        /\ HasValidReveal(b, a1) /\ bonds[b][a1] = 0 /\ refunded[b][a1] > 0
        /\ commitments[b][a2] # 0 /\ bonds[b][a2] > 0 /\ refunded[b][a2] = 0
        /\ ~HasValidReveal(b, a2) /\ ~HasInvalidReveal(b, a2)

\* ------------------------------------------------------------------------
\* C20: while settle is inside its call to the VaultManager the batch is
\* already marked settled (and the engine is locked), so every settle invoked
\* from inside the call reverts; the call is entered only by the step that
\* settles the batch, and a settled batch's flag, clearing price and bonds
\* are never written again, so the settlement effects are applied at most
\* once; vaults change only when that call returns.
\* ------------------------------------------------------------------------
C20_SettledBeforeCallback ==
    /\ [](callFrame # 0 =>
            /\ entered
            /\ batches[callFrame].settled
            /\ batches[callFrame].clearingPrice > 0
            /\ \A b \in BatchIds : SettleError(b) # "ok")
    /\ [][ /\ \A b \in BatchIds :
                /\ (callFrame' = b /\ callFrame # b) => SettleStep(b)
                /\ batches[b].settled =>
                      /\ batches'[b].settled
                      /\ batches'[b].clearingPrice = batches[b].clearingPrice
                      /\ bonds'[b] = bonds[b]
           /\ vaults' # vaults => (callFrame # 0 /\ callFrame' = 0) ]_vars

C20_Witness ==
    /\ callFrame # 0
    /\ batches[callFrame].settled
    /\ \E b \in BatchIds : b # callFrame /\ Started(b)

\* ------------------------------------------------------------------------
\* C21: a call of enqueue, startBatch, commitBid, revealBid or settle that
\* fails changes nothing: in every state, a call whose checks give an error,
\* a valid reveal whose bond refund is not accepted, and a settle whose
\* callback into the VaultManager fails have no successor state. A batch
\* becomes settled only by a settle that passes its checks and whose callback
\* does not fail, a bid is recorded only by a reveal that passes its checks,
\* and a recorded bond changes only by a successful commit or by a valid
\* reveal that delivers the refund.
\* ------------------------------------------------------------------------
CallbackFails(b) ==
    LET batch == BatchAt(b)
        clearingPrice == CalculateClearingPrice(batch)
    IN  /\ CallbackDue(batch, clearingPrice)
        /\ onLiquidationSettle(batch.vaultIds,
                               FilledQty(batch, clearingPrice)).err # "ok"

FailedCallsHaveNoEffect ==
    /\ \A v \in Vaults : vaultQueued[v] => ~ENABLED enqueue(v)
    /\ StartBatchError # "ok" => ~ENABLED startBatch
    /\ \A c \in Bidders, b \in BatchIds, pre \in CommitTuples, value \in BondValues :
          CommitBidError(b, value) # "ok" => ~ENABLED commitBid(c, b, pre, value)
    /\ \A c \in Bidders, b \in BatchIds, p \in RevealParams :
          /\ RevealBidError(c, b) # "ok" =>
                \A ok \in BOOLEAN : ~ENABLED revealBid(c, b, p[1], p[2], p[3], p[4], ok)
          /\ Hash(p[1], p[2], p[3], p[4], c) = commitments[b][c] =>
                ~ENABLED revealBid(c, b, p[1], p[2], p[3], p[4], FALSE)
    /\ \A b \in BatchIds :
          (SettleError(b) # "ok" \/ CallbackFails(b)) => ~ENABLED settle(b)

C21_AllOrNothing ==
    /\ []FailedCallsHaveNoEffect
    /\ [][ \A b \in BatchIds :
             /\ SettleStep(b) => (SettleError(b) = "ok" /\ ~CallbackFails(b))
             /\ RevealStep(b) => RevealBidError(NewBid(b).bidder, b) = "ok"
             /\ \A a \in Bidders :
                   bonds'[b][a] # bonds[b][a] =>
                      \/ CommitBidError(b, bonds'[b][a]) = "ok"
                      \/ /\ RevealStep(b)
                         /\ NewBid(b).bidder = a /\ NewBid(b).valid
                         /\ bonds'[b][a] = 0
                         /\ refunded'[b][a] = refunded[b][a] + bonds[b][a] ]_vars

C21_Witness ==
    /\ paused
    /\ \E b \in BatchIds, a \in Bidders :
          /\ ~batches[b].settled
          /\ SettleError(b) = "ok"
          /\ CallbackFails(b)
          /\ HasValidReveal(b, a)

\* ------------------------------------------------------------------------
\* C22: for a started batch, in whatever phase, commitBid with a value below
\* minCommitBond reverts with InsufficientBond (and with another error, or
\* none, from minCommitBond on) and has no successor state; every step that
\* writes a commitment leaves a bond of at least minCommitBond recorded next
\* to it.
\* ------------------------------------------------------------------------
AttachedValues == 0..(minCommitBond + 1)

C22_InsufficientBond ==
    /\ [](\A b \in BatchIds : Started(b) =>
            \A value \in AttachedValues :
               /\ (value < minCommitBond) <=> CommitBidError(b, value) = "InsufficientBond"
               /\ value < minCommitBond =>
                     \A c \in Bidders, pre \in CommitTuples :
                        ~ENABLED commitBid(c, b, pre, value))
    /\ [][ \A b \in BatchIds, a \in Bidders :
             CommitStep(b, a) =>
                /\ commitments'[b][a] # 0
                /\ bonds'[b][a] >= minCommitBond ]_vars

C22_Witness ==
    \E b \in BatchIds, a \in Bidders :
        /\ Started(b) /\ now < batches[b].startRevealTs
        /\ commitments[b][a] # 0
        /\ bonds[b][a] >= minCommitBond
        /\ CommitBidError(b, 0) = "InsufficientBond"
        /\ CommitBidError(b, minCommitBond) = "ok"

\* ------------------------------------------------------------------------
\* C23 as stated: commitBid with a sufficient bond addressed to a settled
\* batch reverts with BatchAlreadySettled.
\* ------------------------------------------------------------------------
C23_SettledCommitFailsAsSettled ==
    \A b \in BatchIds : batches[b].settled =>
        \A value \in AttachedValues : value >= minCommitBond =>
            CommitBidError(b, value) = "BatchAlreadySettled"

\* ------------------------------------------------------------------------
\* C24: a successful commitBid of bidder c for a batch leaves exactly the
\* commitment and the bond of that call in c's slots, whatever they held
\* before; a reveal is valid exactly when its tuple hashes to the commitment
\* stored at that moment (the one of the latest commit), and a valid reveal
\* refunds the bond of the latest commit.
\* ------------------------------------------------------------------------
SumBonds(b) == bonds[b]["b1"] + bonds[b]["b2"]

C24_LastWriteWins ==
    /\ [](\A a \in Bidders : commitments[1][a] # 0 =>
            commitments[1][a] = Hash(preimage[1][a][1], preimage[1][a][2],
                                     preimage[1][a][3], preimage[1][a][4],
                                     preimage[1][a][5]))
    /\ [][ /\ \A c \in Bidders, pre \in WideCommitTuples, value \in RecommitValues :
                commitBid(c, 1, pre, value) =>
                   /\ commitments'[1][c] = Hash(pre[1], pre[2], pre[3], pre[4], pre[5])
                   /\ bonds'[1][c] = value
                   /\ preimage'[1][c] = pre
           /\ RevealStep(1) =>
                LET bid == NewBid(1)
                IN  /\ bid.valid <=>
                          preimage[1][bid.bidder] =
                             <<bid.vaultId, bid.qty, bid.price, bid.saltHash, bid.bidder>>
                    /\ bid.valid =>
                          refunded'[1][bid.bidder] =
                             refunded[1][bid.bidder] + bonds[1][bid.bidder] ]_vars

\* Only a has committed, more than once (the engine still holds value after
\* a's refund), and a's reveal of its latest commitment was valid
C24_Witness ==
    \E a \in Bidders :
        /\ \A o \in Bidders \ {a} : commitments[1][o] = 0
        /\ HasValidReveal(1, a)
        /\ refunded[1][a] > 0
        /\ bonds[1][a] = 0
        /\ balance > 0

\* ------------------------------------------------------------------------
\* C25 as stated: the value the engine holds equals the sum of the bonds
\* recorded over all batches (so it does for each batch), at all times.
\* ------------------------------------------------------------------------
RECURSIVE SumBondsUpTo(_)
SumBondsUpTo(b) == IF b = 0 THEN 0 ELSE SumBonds(b) + SumBondsUpTo(b - 1)

C25_HeldEqualsRecordedBonds ==
    balance = SumBondsUpTo(MaxBatches)

\* ------------------------------------------------------------------------
\* C26: the pending queue holds no vault twice, vaultQueued[v] is true
\* exactly when v is in the queue, enqueue of a queued vault reverts with
\* VaultAlreadyQueued and has no successor state, and a step that appends to
\* the queue appends one vault that was not queued and leaves the batches and
\* the current batch id as they were.
\* ------------------------------------------------------------------------
InQueue(q, v) == \E i \in 1..Len(q) : q[i] = v

C26_QueuedAtMostOnce ==
    /\ [](/\ \A i, j \in 1..Len(vaultQueue) : vaultQueue[i] = vaultQueue[j] => i = j
          /\ \A v \in DOMAIN vaultQueued :
                /\ vaultQueued[v] <=> InQueue(vaultQueue, v)
                /\ vaultQueued[v] <=> EnqueueError(v) = "VaultAlreadyQueued"
                /\ vaultQueued[v] => ~ENABLED enqueue(v))
    /\ [][ Len(vaultQueue') > Len(vaultQueue) =>
             /\ Len(vaultQueue') = Len(vaultQueue) + 1
             /\ SubSeq(vaultQueue', 1, Len(vaultQueue)) = vaultQueue
             /\ ~InQueue(vaultQueue, vaultQueue'[Len(vaultQueue')])
             /\ batches' = batches
             /\ activeBatchId' = activeBatchId ]_vars

\* Two vaults are pending behind a started batch, one of them a vault that
\* this batch took from the queue and that was enqueued again
C26_Witness ==
    /\ Len(vaultQueue) >= 2
    /\ activeBatchId >= 1
    /\ \E i \in 1..Len(batches[1].vaultIds) : InQueue(vaultQueue, batches[1].vaultIds[i])

\* ------------------------------------------------------------------------
\* C27: with an empty queue startBatch reverts with EmptyQueue and has no
\* successor state; a step that starts a batch gives it the next id, moves
\* exactly the first min(queue length, maxBatchSize) vaults of the queue, in
\* queue order, into it, leaves the rest of the queue in its order, and sets
\* startCommitTs = now and startRevealTs = now + COMMIT_WINDOW.
\* ------------------------------------------------------------------------
StartStep == activeBatchId' # activeBatchId

MinOf(x, y) == IF x < y THEN x ELSE y

C27_StartBatchTakesQueueHead ==
    /\ [](Len(vaultQueue) = 0 =>
            (StartBatchError = "EmptyQueue" /\ ~ENABLED startBatch))
    /\ [][ StartStep =>
             LET n == MinOf(Len(vaultQueue), maxBatchSize)
                 new == batches'[activeBatchId']
             IN  /\ activeBatchId' = activeBatchId + 1
                 /\ n >= 1
                 /\ new.vaultIds = SubSeq(vaultQueue, 1, n)
                 /\ vaultQueue' = SubSeq(vaultQueue, n + 1, Len(vaultQueue))
                 /\ new.startCommitTs = now
                 /\ new.startRevealTs = now + COMMIT_WINDOW
                 /\ ~new.settled ]_vars

\* The first batch took maxBatchSize vaults out of a longer queue and the
\* second batch the one vault that was left
C27_Witness ==
    /\ activeBatchId = 2
    /\ Len(batches[1].vaultIds) = maxBatchSize
    /\ Len(batches[2].vaultIds) = 1
    /\ Len(batches[2].vaultIds) < maxBatchSize
    /\ \A i \in 1..Len(batches[1].vaultIds) :
          batches[1].vaultIds[i] # batches[2].vaultIds[1]
    /\ vaultQueue = <<>>

\* ------------------------------------------------------------------------
\* C28: a batch's totalQtyOffered is minLot times the number of its vaults
\* from the step that starts it (0 before), and no later step (commit,
\* reveal, settle, the start of another batch, the passing of time) changes
\* it or the batch's vault list.
\* ------------------------------------------------------------------------
C28_OfferFixedAtCreation ==
    /\ [](\A b \in BatchIds :
            /\ batches[b].totalQtyOffered = Len(batches[b].vaultIds) * minLot
            /\ Started(b) <=> batches[b].totalQtyOffered > 0)
    /\ [][ \A b \in BatchIds : Started(b) =>
             /\ batches'[b].totalQtyOffered = batches[b].totalQtyOffered
             /\ batches'[b].vaultIds = batches[b].vaultIds ]_vars

\* A settled batch of two vaults that received bids still offers two lots,
\* next to a started batch of one vault
C28_Witness ==
    /\ batches[1].settled
    /\ Len(batches[1].revealedBids) > 0
    /\ batches[1].clearingPrice > 0
    /\ Len(batches[1].vaultIds) = 2
    /\ batches[1].totalQtyOffered = 2 * minLot
    /\ Started(2)
    /\ batches[2].totalQtyOffered = minLot

\* ------------------------------------------------------------------------
\* C29: the started batches are exactly those with ids 1..activeBatchId; the
\* current batch id never decreases and changes only in a step that starts a
\* batch, which takes the next id, whose record was never written, and leaves
\* every other batch's record as it was; no step rewrites the timestamps or
\* the vault list of a started batch, unsets its settled flag or removes a
\* bid recorded in it.
\* ------------------------------------------------------------------------
C29_BatchIdsIncrease ==
    /\ [](\A b \in BatchIds :
            /\ Started(b) <=> b <= activeBatchId
            /\ ~Started(b) => batches[b] = EmptyBatch
            /\ \A b2 \in BatchIds : (b < b2 /\ Started(b2)) =>
                  batches[b].startCommitTs < batches[b2].startCommitTs)
    /\ [][ /\ activeBatchId' >= activeBatchId
           /\ StartStep =>
                /\ activeBatchId' = activeBatchId + 1
                /\ batches[activeBatchId'] = EmptyBatch
                /\ batches'[activeBatchId'].startCommitTs = now
                /\ \A b \in BatchIds \ {activeBatchId'} : batches'[b] = batches[b]
           /\ ~StartStep =>
                \A b \in BatchIds : (batches'[b].startCommitTs > 0) <=> Started(b)
           /\ \A b \in BatchIds : Started(b) =>
                /\ batches'[b].startCommitTs = batches[b].startCommitTs
                /\ batches'[b].startRevealTs = batches[b].startRevealTs
                /\ batches'[b].vaultIds = batches[b].vaultIds
                /\ batches[b].settled => batches'[b].settled
                /\ Len(batches'[b].revealedBids) >= Len(batches[b].revealedBids)
                /\ SubSeq(batches'[b].revealedBids, 1, Len(batches[b].revealedBids))
                      = batches[b].revealedBids ]_vars

C29_Witness ==
    /\ activeBatchId = 2
    /\ batches[1].settled
    /\ Len(batches[1].revealedBids) > 0
    /\ Started(2)
    /\ batches[2].startCommitTs > batches[1].startCommitTs
    /\ \E a \in Bidders : commitments[2][a] # 0

\* ------------------------------------------------------------------------
\* C30 as stated: whenever the adapter and the oracle answer, the health
\* computation of a vault without debt returns and reports healthy = TRUE,
\* whatever the collateral value, the price and the LTV setting.
\* ------------------------------------------------------------------------
C30_ZeroDebtIsHealthy ==
    \A v \in DOMAIN vaults :
        (/\ vaults[v].debt = 0
         /\ ValueOf(shareVault, vaults[v].shares).err = "ok"
         /\ GetPrice(oracle).err = "ok")
            => (vaultHealth(v).err = "ok" /\ vaultHealth(v).healthy)

\* ------------------------------------------------------------------------
\* C31 as stated: a vault with debt that the health computation reports as
\* healthy under an enabled collateral does satisfy debt * MAX_BPS <=
\* collateralValueWad * ltvBps in unbounded arithmetic, and a vault with debt
\* that is reported as not eligible does satisfy collateralValueWad * MAX_BPS
\* >= debt * MCR_BPS up to the rounding of one division: no answer rests on
\* a product that does not fit the word.
\* ------------------------------------------------------------------------
C31_NoHealthyByOverflow ==
    \A v \in DOMAIN vaults :
        LET h == vaultHealth(v)
            e == isLiquidationEligible(v)
        IN  /\ (collaterals.enabled /\ vaults[v].debt > 0 /\ h.err = "ok" /\ h.healthy) =>
                  h.debt * MAX_BPS <= h.collateralValueWad * h.ltvBps
            /\ (vaults[v].debt > 0 /\ e.err = "ok" /\ ~e.eligible) =>
                  (h.collateralValueWad + 1) * MAX_BPS > h.debt * MCR_BPS

\* ------------------------------------------------------------------------
\* C32 as stated: with collateralValueWad = valueOf(shares) * price / WAD,
\* an active vault under an enabled collateral whose value and price can be
\* read is eligible exactly when debt > 0 and
\* collateralValueWad * MAX_BPS < debt * MCR_BPS.
\* ------------------------------------------------------------------------
SpecCollateralValueWad(v) ==
    (ValueOf(shareVault, vaults[v].shares).assets * GetPrice(oracle).price) \div WAD

C32_EligibleIffBelowMcr ==
    \A v \in DOMAIN vaults :
        LET e == isLiquidationEligible(v)
        IN  (/\ vaults[v].active
             /\ collaterals.enabled
             /\ ValueOf(shareVault, vaults[v].shares).err = "ok"
             /\ GetPrice(oracle).err = "ok"
             /\ e.err = "ok")
            => (e.eligible <=>
                   (/\ vaults[v].debt > 0
                    /\ SpecCollateralValueWad(v) * MAX_BPS < vaults[v].debt * MCR_BPS))

\* ------------------------------------------------------------------------
\* VaultManager: the owner's operations and flagForLiquidation
\* ------------------------------------------------------------------------
VaultCallers == {"owner", "keeper"}
VaultIds == {1, 2}
BorrowAmounts == {0, 2000, 30000}
VaultPrices == {1, 100, 1000}
VaultLtvs == {5, 8, 10}

\* vaultOwner[vaultId]: every vault of the model belongs to "owner"
VaultOwner(vaultId) == IF vaultId \in DOMAIN vaults THEN "owner" ELSE "none"

\* The modifiers shared by deposit, withdraw, borrow and repay, in the order
\* of the code: whenNotPaused, vaultExists, onlyVaultOwner, vaultActive,
\* validAmount
OwnerOpError(caller, vaultId, amount) ==
    IF paused THEN "EnforcedPause"
    ELSE IF VaultOwner(vaultId) = "none" THEN "VaultNotFound"
    ELSE IF VaultOwner(vaultId) # caller THEN "NotVaultOwner"
    ELSE IF ~vaults[vaultId].active THEN "VaultInactive"
    ELSE IF amount = 0 THEN "InvalidAmount"
    ELSE "ok"

\* The vault table after the debt of vaultId is set to debt
WithDebt(vaultId, debt) == [vaults EXCEPT ![vaultId].debt = debt]

\* The checks of borrow: the modifiers, the checked addition, and the health
\* of the vault with the new debt
BorrowError(caller, vaultId, amount) ==
    IF OwnerOpError(caller, vaultId, amount) # "ok"
    THEN OwnerOpError(caller, vaultId, amount)
    ELSE IF vaults[vaultId].debt + amount > UINT_MAX THEN "Panic"
    ELSE LET h == GetVaultHealth(WithDebt(vaultId, vaults[vaultId].debt + amount)[vaultId],
                                 collaterals, shareVault, oracle)
         IN  IF h.err # "ok" THEN h.err
             ELSE IF ~h.healthy THEN "UnsafePosition"
             ELSE IF stable + amount > UINT_MAX THEN "Panic"
             ELSE "ok"

\* borrow(vaultId, amount)
borrow(caller, vaultId, amount) ==
    IF BorrowError(caller, vaultId, amount) # "ok"
    THEN Revert("borrow", caller, 0, BorrowError(caller, vaultId, amount))
    ELSE /\ vaults' = WithDebt(vaultId, vaults[vaultId].debt + amount)
         /\ stable' = stable + amount
         /\ UNCHANGED <<now, engineVars, paused, collaterals, oracle, shareVault>>

\* repay(vaultId, amount): the amount is clamped to the debt and burned from
\* the caller
RepayError(caller, vaultId, amount) ==
    IF OwnerOpError(caller, vaultId, amount) # "ok"
    THEN OwnerOpError(caller, vaultId, amount)
    ELSE IF stable < MinOf(amount, vaults[vaultId].debt) THEN "ERC20InsufficientBalance"
    ELSE "ok"

repay(caller, vaultId, amount) ==
    IF RepayError(caller, vaultId, amount) # "ok"
    THEN Revert("repay", caller, 0, RepayError(caller, vaultId, amount))
    ELSE LET amt == MinOf(amount, vaults[vaultId].debt)
         IN  /\ vaults' = WithDebt(vaultId, vaults[vaultId].debt - amt)
             /\ stable' = stable - amt
             /\ UNCHANGED <<now, engineVars, paused, collaterals, oracle, shareVault>>

\* The checks of flagForLiquidation, in the order of the code: whenNotPaused,
\* vaultExists, vaultActive, the eligibility test, and the checks of the
\* engine's enqueue, which the VaultManager calls as a liquidator
FlagErrorNoEligibility(vaultId) ==
    IF paused THEN "EnforcedPause"
    ELSE IF VaultOwner(vaultId) = "none" THEN "VaultNotFound"
    ELSE IF ~vaults[vaultId].active THEN "VaultInactive"
    ELSE EnqueueError(vaultId)

FlagError(vaultId) ==
    IF paused THEN "EnforcedPause"
    ELSE IF VaultOwner(vaultId) = "none" THEN "VaultNotFound"
    ELSE IF ~vaults[vaultId].active THEN "VaultInactive"
    ELSE IF isLiquidationEligible(vaultId).err # "ok"
         THEN isLiquidationEligible(vaultId).err
    ELSE IF ~isLiquidationEligible(vaultId).eligible THEN "VaultHealthy"
    ELSE EnqueueError(vaultId)

\* flagForLiquidation(vaultId), called by anyone
flagForLiquidation(vaultId) ==
    IF FlagError(vaultId) # "ok"
    THEN Revert("flagForLiquidation", "keeper", 0, FlagError(vaultId))
    ELSE /\ vaultQueue' = Append(vaultQueue, vaultId)
         /\ vaultQueued' = [vaultQueued EXCEPT ![vaultId] = TRUE]
         /\ UNCHANGED <<now, activeBatchId, batches, commitments, bonds,
                        refunded, preimage, vaults, paused, vmEnv, entered, callFrame,
                        balance>>

\* One vault of the owner holding collateral and no debt, under any of the
\* collateral settings and prices; the owner borrows and repays, anyone
\* flags the vault, the price moves, the risk admin reconfigures the
\* collateral and the VaultManager is paused and unpaused
InitVault ==
    /\ now = 1
    /\ activeBatchId = 0
    /\ vaultQueue = <<>>
    /\ vaultQueued = [v \in Vaults |-> FALSE]
    /\ batches = [b \in BatchIds |-> EmptyBatch]
    /\ commitments = [b \in BatchIds |-> [a \in Bidders |-> 0]]
    /\ bonds = [b \in BatchIds |-> [a \in Bidders |-> 0]]
    /\ \E s \in ShareValues \ {0} :
          /\ vaults = [v \in Vaults |-> [shares |-> s, debt |-> 0, active |-> TRUE]]
          /\ shareVault = [totalAssets |-> s, totalSupply |-> s]
    /\ paused = FALSE
    /\ refunded = [b \in BatchIds |-> [a \in Bidders |-> 0]]
    /\ preimage = [b \in BatchIds |-> [a \in Bidders |-> <<>>]]
    /\ entered = FALSE
    /\ callFrame = 0
    /\ balance = 0
    /\ stable = 0
    /\ \E l \in VaultLtvs : collaterals = [ltvBps |-> l, enabled |-> TRUE]
    /\ \E p \in VaultPrices :
          oracle = Push(NewOracle(0), p, 1)

NextVault ==
    \/ \E c \in VaultCallers, v \in VaultIds, a \in BorrowAmounts : borrow(c, v, a)
    \/ \E c \in VaultCallers, v \in VaultIds, a \in BorrowAmounts : repay(c, v, a)
    \/ \E v \in VaultIds : flagForLiquidation(v)
    \/ \E p \in VaultPrices : pushPrice(p)
    \/ \E l \in VaultLtvs, e \in BOOLEAN : setCollateral(l, e)
    \/ pause
    \/ unpause

SpecVault == InitVault /\ [][NextVault]_vars

\* ------------------------------------------------------------------------
\* C33: flagForLiquidation succeeds only for a vault that is liquidation-
\* eligible at the time of the call; when the VaultManager is not paused,
\* the vault exists and is active and the eligibility can be computed, a
\* call for a vault that is not eligible fails with VaultHealthy; a failing
\* call changes nothing, and every step that changes the pending queue
\* appends one vault that was eligible before the step and marks it queued.
\* ------------------------------------------------------------------------
C33_FlagChecks ==
    \A v \in VaultIds :
        /\ FlagError(v) = "ok" =>
              /\ isLiquidationEligible(v).err = "ok"
              /\ isLiquidationEligible(v).eligible
        /\ (/\ ~paused
            /\ v \in DOMAIN vaults
            /\ vaults[v].active
            /\ isLiquidationEligible(v).err = "ok"
            /\ ~isLiquidationEligible(v).eligible) => FlagError(v) = "VaultHealthy"
        /\ FlagError(v) # "ok" => ~ENABLED flagForLiquidation(v)

C33_FlagStep ==
    vaultQueue' # vaultQueue =>
        \E v \in DOMAIN vaults :
            /\ isLiquidationEligible(v).err = "ok"
            /\ isLiquidationEligible(v).eligible
            /\ vaultQueue' = Append(vaultQueue, v)
            /\ vaultQueued'[v]

C34_BorrowStep ==
    \A v \in DOMAIN vaults :
        vaults'[v].debt > vaults[v].debt =>
            vaults'[v].debt * MAX_BPS <= SpecCollateralValueWad(v)' * collaterals'.ltvBps

C34_BorrowKeepsLtvBound == [][C34_BorrowStep]_vars

\* ------------------------------------------------------------------------
\* C35 as stated: while the VaultManager is not paused,
\* onLiquidationSettle for one vault and any fill, larger than the vault's
\* shares or not, succeeds and takes from the vault the fill clamped to its
\* shares.
\* ------------------------------------------------------------------------
FillQtys == {1, 5, 201}

C35_OversizedFillIsClamped ==
    \A v \in DOMAIN vaults, q \in FillQtys :
        ~paused =>
            LET r == onLiquidationSettle(<<v>>, <<q>>)
            IN  /\ r.err = "ok"
                /\ r.vaults[v].shares = vaults[v].shares - MinOf(q, vaults[v].shares)

\* ------------------------------------------------------------------------
\* GuardedOracle on its own: the admin's settings, the price feed and time
\* ------------------------------------------------------------------------
OraclePrices == {1, 100, 400}
OracleBounds == {<<0, 0>>, <<50, 150>>}
TwapWindows == {0, 2}
StaleLimits == {0, 2}

\* setBounds(minP, maxP)
setBounds(minP, maxP) ==
    /\ oracle' = [oracle EXCEPT !.minPrice = minP, !.maxPrice = maxP]
    /\ UNCHANGED <<now, engineVars, vaults, paused, collaterals, shareVault, stable>>

\* setTwapWindow(seconds_)
setTwapWindow(seconds) ==
    /\ oracle' = [oracle EXCEPT !.twapWindow = seconds]
    /\ UNCHANGED <<now, engineVars, vaults, paused, collaterals, shareVault, stable>>

\* The oracle as constructed, with or without a staleness limit, next to a
\* VaultManager holding one vault
InitOracle ==
    /\ now = 1
    /\ activeBatchId = 0
    /\ vaultQueue = <<>>
    /\ vaultQueued = [v \in Vaults |-> FALSE]
    /\ batches = [b \in BatchIds |-> EmptyBatch]
    /\ commitments = [b \in BatchIds |-> [a \in Bidders |-> 0]]
    /\ bonds = [b \in BatchIds |-> [a \in Bidders |-> 0]]
    /\ vaults = [v \in Vaults |-> [shares |-> 4, debt |-> 10, active |-> TRUE]]
    /\ paused = FALSE
    /\ refunded = [b \in BatchIds |-> [a \in Bidders |-> 0]]
    /\ preimage = [b \in BatchIds |-> [a \in Bidders |-> <<>>]]
    /\ entered = FALSE
    /\ callFrame = 0
    /\ balance = 0
    /\ stable = 0
    /\ collaterals = [ltvBps |-> 8, enabled |-> TRUE]
    /\ shareVault = [totalAssets |-> 4, totalSupply |-> 4]
    /\ \E ms \in StaleLimits : oracle = NewOracle(ms)

NextOracle ==
    \/ Tick
    \/ \E p \in OraclePrices : pushPrice(p)
    \/ \E p \in BOOLEAN : setPaused(p)
    \/ \E bd \in OracleBounds : setBounds(bd[1], bd[2])
    \/ \E w \in TwapWindows : setTwapWindow(w)

SpecOracle == InitOracle /\ [][NextOracle]_vars

\* ------------------------------------------------------------------------
\* C36 as stated: whenever getPrice answers, the oracle is not paused, the
\* latest update is not older than maxStale, and the price it answers with,
\* spot or TWAP, lies within [minPrice, maxPrice] where these are set.
\* ------------------------------------------------------------------------
C36_AnswerIsGuarded ==
    LET r == GetPrice(oracle)
    IN  r.err = "ok" =>
            /\ ~oracle.paused
            /\ oracle.maxStale > 0 => now - oracle.updatedAt <= oracle.maxStale
            /\ oracle.minPrice > 0 => r.price >= oracle.minPrice
            /\ oracle.maxPrice > 0 => r.price <= oracle.maxPrice

\* ------------------------------------------------------------------------
\* The first batch with bids whose quantities reach the largest value of the
\* word: each bidder commits to one of these bids, reveals it, and the batch
\* is settled
\* ------------------------------------------------------------------------
LargeBidTuples ==
    { <<1, 1, 2, 1, "b1">>, <<1, UINT_MAX, 2, 1, "b1">>,
      <<1, 2, 1, 1, "b2">>, <<1, UINT_MAX, 1, 1, "b2">> }

NextLargeBids ==
    \/ Tick
    \/ \E c \in Bidders, pre \in LargeBidTuples : commitBid(c, 1, pre, 2)
    \/ \E c \in Bidders, pre \in LargeBidTuples :
          revealBid(c, 1, pre[1], pre[2], pre[3], pre[4], TRUE)
    \/ settle(1)

SpecLargeBids == InitFirstBatch /\ [][NextLargeBids]_vars

\* ------------------------------------------------------------------------
\* C37 as stated: for every started batch that is not settled, once
\* now >= startRevealTs + REVEAL_WINDOW a call of settle succeeds, whatever
\* bids were revealed.
\* ------------------------------------------------------------------------
C37_SettleableBatchSettles ==
    \A b \in BatchIds :
        (Started(b) /\ now >= WindowEnd(b) /\ ~batches[b].settled /\ ~entered)
            => ENABLED settle(b)

\* ------------------------------------------------------------------------
\* C38: no step changes anything of a settled batch (its settled flag,
\* clearing price, vault list, deadlines, totalQtyOffered and revealed
\* bids), and no step modifies or removes a revealed bid of any batch: the
\* revealed bids of a batch before a step are a prefix of those after it.
\* ------------------------------------------------------------------------
C38_Step ==
    \A b \in BatchIds :
        /\ batches[b].settled => batches'[b] = batches[b]
        /\ Len(batches'[b].revealedBids) >= Len(batches[b].revealedBids)
        /\ \A i \in 1..Len(batches[b].revealedBids) :
              batches'[b].revealedBids[i] = batches[b].revealedBids[i]

C38_SettledIsTerminal == [][C38_Step]_vars

\* batch 1 is settled with its revealed bids, one bidder having revealed
\* twice, and batch 2 has been started and bid on after it
C38_Witness ==
    /\ batches[1].settled
    /\ Len(batches[1].revealedBids) = 2
    /\ batches[1].revealedBids[1].bidder = batches[1].revealedBids[2].bidder
    /\ Started(2)
    /\ \E a \in Bidders : commitments[2][a] # 0

\* ------------------------------------------------------------------------
\* C39 as stated: a vault of a started batch that is not settled is neither
\* in the pending queue nor among the vaults of another started batch that is
\* not settled.
\* ------------------------------------------------------------------------
OpenBatch(b) == Started(b) /\ ~batches[b].settled

C39_VaultInOneOpenPlace ==
    \A b \in BatchIds :
        OpenBatch(b) =>
            \A i \in 1..Len(batches[b].vaultIds) :
                /\ ~InQueue(vaultQueue, batches[b].vaultIds[i])
                /\ \A b2 \in BatchIds \ {b} :
                      OpenBatch(b2) =>
                          \A j \in 1..Len(batches[b2].vaultIds) :
                              batches[b2].vaultIds[j] # batches[b].vaultIds[i]

\* ------------------------------------------------------------------------
\* C40 as stated, over the values for which no product of the two
\* computations exceeds the word: a vault that the health check reports as
\* healthy is not liquidation-eligible at the same price.
\* ------------------------------------------------------------------------
C40_HealthyIsNotEligible ==
    \A v \in DOMAIN vaults :
        LET h == vaultHealth(v)
            e == isLiquidationEligible(v)
        IN  (/\ h.err = "ok"
             /\ e.err = "ok"
             /\ h.collateralValueWad * h.ltvBps <= UINT_MAX
             /\ h.debt * MCR_BPS <= UINT_MAX
             /\ h.healthy) => ~e.eligible

====
